---- MODULE Spec2Model ----
(***************************************************************************)
(* Model of the city-scrapers-kancit meeting scrapers.                     *)
(*                                                                         *)
(* Text is modelled as a sequence of one-character strings, so that the    *)
(* string operations of the code (startswith, split, "in", lower, strip,   *)
(* replace, f-string joins) are computed and not assumed.  The characters  *)
(* are those of Latin-1.  None is the value None of the code.              *)
(***************************************************************************)
EXTENDS Naturals, Integers, Sequences, FiniteSets, TLC

VARIABLES
    impl,          \* "mixin" or "spider": which _parse_legistar_events runs
    scraped_urls,  \* self._scraped_urls, the keys seen in this crawl run
    returned,      \* every event returned so far in this run, in order
    calls,         \* number of pages parsed so far
    lastEvents,    \* the list returned by the last call
    lastRaised,    \* whether the last call raised instead of returning
    lastSeen,      \* self._scraped_urls as it was before the last call
    lastClean,     \* what the last call yields on the page less its bad rows
    lastSkips,     \* rows of the last page that were skipped, see SkipsOf
    firstRow,      \* for each key, the data of the first good row carrying it
    lastPage,      \* the page given to the last call
    clsTitle,      \* classifier: the title given
    clsOut,        \* classifier: the results for Name as text and as a link
    locRaw,        \* location normalizer: the "Meeting Location" value given
    locFallback,   \* location normalizer: the configured meeting_location
    locOut,        \* location normalizer: the results of mixin and spider
    spider,        \* emission: the source that crawls, a key of Spiders
    clock,         \* emission: datetime.now()
    pending,       \* emission: requests not yet answered, by callback
    active,        \* emission: the generators of the callbacks under way
    requested,     \* emission: the years requested by parse, in order
    handled,       \* emission: number of responses handled
    fed,           \* emission: number of raw events the responses held
    eseen,         \* emission: self._scraped_urls of the source
    emitted,       \* emission: the meetings yielded so far, in order
    origin,        \* emission: the raw event each meeting was made from
    lastRun,       \* emission: how the generator resumed last stands
    dropdown,      \* emission: the year options of the calendar page, once
                   \* parse of the mixin was given it
    linkIn,        \* link builders: the event given
    linkOut,       \* link builders: the links of the Legistar and CivicClerk code
    placeIn,       \* CivicClerk and KCKPS locations: the raw event or item
    placeOut,      \* CivicClerk and KCKPS locations: the location, once parsed
    nspiders,      \* run_all_spiders: number of spiders listed, named 1..nspiders
    parallel,      \* run_all_spiders: args.parallel, the workers of the pool
    waiting,       \* run_all_spiders: submitted calls no worker has taken yet
    running,       \* run_all_spiders: spiders whose run_spider is under way
    same_path,     \* run_all_spiders: output_file names one file for the crawl
                   \* and for run_spider
    stdout_encodes, \* run_all_spiders: the marks that stdout can encode
    outputs,       \* run_all_spiders: the file at the path the crawl of each
                   \* spider writes to
    elsewhere,     \* run_all_spiders: the file at output_file as run_spider
                   \* resolves it, when that is another path
    futures,       \* run_all_spiders: what each finished call returned or raised
    runs,          \* run_all_spiders: how often run_spider was started, by spider
    collected,     \* run_all_spiders: futures the as_completed loop has handled
    results,       \* run_all_spiders: the counters of main
    main,          \* run_all_spiders: where the main thread stands
    classes        \* class creation: every class statement run, by class name

legVars == <<impl, scraped_urls, returned, calls, lastEvents, lastRaised,
             lastSeen, lastClean, lastSkips, firstRow, lastPage>>

clsVars == <<clsTitle, clsOut>>

locVars == <<locRaw, locFallback, locOut>>

emitVars == <<spider, clock, pending, active, requested, handled, fed, eseen,
              emitted, origin, lastRun, dropdown>>

linkVars == <<linkIn, linkOut>>

placeVars == <<placeIn, placeOut>>

classVars == <<classes>>

poolVars == <<nspiders, parallel, same_path, stdout_encodes, waiting, running,
              outputs, elsewhere, futures, runs, collected, results, main>>

vars == <<legVars, clsVars, locVars, emitVars, linkVars, placeVars, classVars,
          poolVars>>

-----------------------------------------------------------------------------
(* Text helpers: Python's str operations on character sequences.           *)

None == <<"<None>">>

UpperAlpha == <<"A","B","C","D","E","F","G","H","I","J","K","L","M",
                "N","O","P","Q","R","S","T","U","V","W","X","Y","Z">>
LowerAlpha == <<"a","b","c","d","e","f","g","h","i","j","k","l","m",
                "n","o","p","q","r","s","t","u","v","w","x","y","z">>
Digits == {"0","1","2","3","4","5","6","7","8","9"}

\* The characters of a text are those of Latin-1, U+0001 to U+00FF.  Of
\* these str.isspace() holds, and \s of re matches, the twelve below: tab,
\* line feed, U+000B, form feed, carriage return, U+001C to U+001F, space,
\* U+0085 and the no-break space U+00A0.
Whitespace == {"\t", "\n", "", "\f", "\r", "", "", "", "",
               " ", "", " "}

\* the upper-case letters of Latin-1 beyond A-Z, U+00C0 to U+00DE without
\* the multiplication sign, and what str.lower() makes of them
UpperLatin1 == <<"À","Á","Â","Ã","Ä","Å","Æ","Ç","È","É","Ê","Ë","Ì",
               "Í","Î","Ï","Ð","Ñ","Ò","Ó","Ô","Õ","Ö","Ø","Ù","Ú",
               "Û","Ü","Ý","Þ">>
LowerLatin1 == <<"à","á","â","ã","ä","å","æ","ç","è","é","ê","ë","ì",
               "í","î","ï","ð","ñ","ò","ó","ô","õ","ö","ø","ù","ú",
               "û","ü","ý","þ">>

LowerChar(c) ==
    IF \E i \in 1..26 : UpperAlpha[i] = c
    THEN LowerAlpha[CHOOSE i \in 1..26 : UpperAlpha[i] = c]
    ELSE IF \E i \in 1..Len(UpperLatin1) : UpperLatin1[i] = c
    THEN LowerLatin1[CHOOSE i \in 1..Len(UpperLatin1) : UpperLatin1[i] = c]
    ELSE c

\* str.lower()
Lower(s) == [i \in 1..Len(s) |-> LowerChar(s[i])]

\* str.startswith(p)
StartsWith(s, p) == Len(s) >= Len(p) /\ SubSeq(s, 1, Len(p)) = p

\* p in s
Contains(s, p) ==
    \E i \in 0..(Len(s) - Len(p)) : SubSeq(s, i + 1, i + Len(p)) = p

\* str.strip()
RECURSIVE LStrip(_)
LStrip(s) ==
    IF s # <<>> /\ Head(s) \in Whitespace THEN LStrip(Tail(s)) ELSE s

RECURSIVE RStrip(_)
RStrip(s) ==
    IF s # <<>> /\ s[Len(s)] \in Whitespace
    THEN RStrip(SubSeq(s, 1, Len(s) - 1))
    ELSE s

Strip(s) == RStrip(LStrip(s))

\* the occurrence of old at position i of s is one that str.replace
\* replaces: none replaced before it reaches into it
RECURSIVE Replaced(_, _, _)
Replaced(s, old, i) ==
    /\ SubSeq(s, i, i + Len(old) - 1) = old
    /\ \A j \in (i - Len(old) + 1)..(i - 1) : j >= 1 => ~Replaced(s, old, j)

\* s from position from on, the occurrences at the positions of hits
\* replaced
RECURSIVE ReplaceFrom(_, _, _, _, _)
ReplaceFrom(s, old, new, hits, from) ==
    LET later == {i \in hits : i >= from}
        next == CHOOSE i \in later : \A j \in later : i <= j
    IN  IF later = {} THEN SubSeq(s, from, Len(s))
        ELSE SubSeq(s, from, next - 1) \o new
             \o ReplaceFrom(s, old, new, hits, next + Len(old))

\* str.replace(old, new), old non-empty: leftmost, non-overlapping
Replace(s, old, new) ==
    ReplaceFrom(s, old, new,
                {i \in 1..(Len(s) - Len(old) + 1) : Replaced(s, old, i)}, 1)

\* str.split(c) on a one-character separator: always at least one part
RECURSIVE SplitAcc(_, _, _)
SplitAcc(s, c, cur) ==
    IF s = <<>> THEN <<cur>>
    ELSE IF Head(s) = c
         THEN <<cur>> \o SplitAcc(Tail(s), c, <<>>)
         ELSE SplitAcc(Tail(s), c, Append(cur, Head(s)))

Split(s, c) == SplitAcc(s, c, <<>>)

\* sep.join(parts)
RECURSIVE Join(_, _)
Join(sep, parts) ==
    IF parts = <<>> THEN <<>>
    ELSE IF Len(parts) = 1 THEN parts[1]
    ELSE parts[1] \o sep \o Join(sep, Tail(parts))

\* the sequences of at most n elements of S: the inputs of bounded length
RECURSIVE SeqsUpTo(_, _)
SeqsUpTo(S, n) ==
    IF n = 0 THEN {<<>>}
    ELSE LET shorter == SeqsUpTo(S, n - 1)
         IN  shorter \cup {Append(q, x) : q \in shorter, x \in S}

-----------------------------------------------------------------------------
(* Legistar calendar pages: tables of rows of cells.                       *)

Pre_radopen == <<"r","a","d","o","p","e","n","(","'">>
Pre_window_open == <<"w","i","n","d","o","w",".","o","p","e","n">>
Pre_OpenTelerikWindow ==
    <<"O","p","e","n","T","e","l","e","r","i","k","W","i","n","d","o","w">>
OnclickPrefixes == {Pre_radopen, Pre_window_open, Pre_OpenTelerikWindow}
IcalMarker == <<"V","i","e","w",".","a","s","h","x","?","M","=","I","C">>
Nbsp == <<"&","n","b","s","p",";">>

\* The page address, response.url.
Scheme == <<"h","t","t","p",":","/","/">>
BaseDir == Scheme \o <<"k","/">>
BaseUrl == BaseDir \o <<"C","a","l">>

\* response.urljoin(url) is urljoin(response.url, url) of urllib.parse, for
\* a page without a base element.  The operators below follow that library,
\* as of Python 3.11.

\* raised by urlsplit on a netloc whose brackets do not hold an address
ValueError == <<"<ValueError>">>

\* U+0001 to U+0020, which urlsplit strips from the left of the address
C0ControlOrSpace == {"","","","","","","","","\t","\n","","\f","\r","","","","","","","","","","","","","","","","","","", " "}
UnsafeUrlBytes == {"\t", "\r", "\n"}
AsciiLetters == {UpperAlpha[i] : i \in 1..26} \cup {LowerAlpha[i] : i \in 1..26}
scheme_chars == AsciiLetters \cup Digits \cup {"+", "-", "."}
uses_relative == {<<>>, <<"f","t","p">>, <<"h","t","t","p">>, <<"g","o","p","h","e","r">>, <<"n","n","t","p">>, <<"i","m","a","p">>, <<"w","a","i","s">>, <<"f","i","l","e">>, <<"h","t","t","p","s">>, <<"s","h","t","t","p">>, <<"m","m","s">>, <<"p","r","o","s","p","e","r","o">>, <<"r","t","s","p">>, <<"r","t","s","p","s">>, <<"r","t","s","p","u">>, <<"s","f","t","p">>, <<"s","v","n">>, <<"s","v","n","+","s","s","h">>, <<"w","s">>, <<"w","s","s">>}
uses_netloc == {<<>>, <<"f","t","p">>, <<"h","t","t","p">>, <<"g","o","p","h","e","r">>, <<"n","n","t","p">>, <<"t","e","l","n","e","t">>, <<"i","m","a","p">>, <<"w","a","i","s">>, <<"f","i","l","e">>, <<"m","m","s">>, <<"h","t","t","p","s">>, <<"s","h","t","t","p">>, <<"s","n","e","w","s">>, <<"p","r","o","s","p","e","r","o">>, <<"r","t","s","p">>, <<"r","t","s","p","s">>, <<"r","t","s","p","u">>, <<"r","s","y","n","c">>, <<"s","v","n">>, <<"s","v","n","+","s","s","h">>, <<"s","f","t","p">>, <<"n","f","s">>, <<"g","i","t">>, <<"g","i","t","+","s","s","h">>, <<"w","s">>, <<"w","s","s">>}
uses_params == {<<>>, <<"f","t","p">>, <<"h","d","l">>, <<"p","r","o","s","p","e","r","o">>, <<"h","t","t","p">>, <<"i","m","a","p">>, <<"h","t","t","p","s">>, <<"s","h","t","t","p">>, <<"r","t","s","p">>, <<"r","t","s","p","s">>, <<"r","t","s","p","u">>, <<"s","i","p">>, <<"s","i","p","s">>, <<"m","m","s">>, <<"s","f","t","p">>, <<"t","e","l">>}

\* s.find(c, start), positions counted from 1; 0 when c is not found
Find(s, c, start) ==
    IF \E i \in start..Len(s) : s[i] = c
    THEN CHOOSE i \in start..Len(s) :
             s[i] = c /\ \A j \in start..(i - 1) : s[j] # c
    ELSE 0

\* s.rfind(c); 0 when c is not found
RFind(s, c) ==
    IF \E i \in 1..Len(s) : s[i] = c
    THEN CHOOSE i \in 1..Len(s) :
             s[i] = c /\ \A j \in (i + 1)..Len(s) : s[j] # c
    ELSE 0

\* s.lstrip(chars)
RECURSIVE LStripOf(_, _)
LStripOf(s, chars) ==
    IF s # <<>> /\ Head(s) \in chars THEN LStripOf(Tail(s), chars) ELSE s

Without(s, chars) == SelectSeq(s, LAMBDA c : c \notin chars)

\* s[i:] and s[:i] with positions counted from 1: from i on, before i
From(s, i) == SubSeq(s, i, Len(s))
Before(s, i) == SubSeq(s, 1, i - 1)

\* the hexadecimal digits
HexDigits == Digits \cup {"a","b","c","d","e","f","A","B","C","D","E","F"}

\* ipaddress.IPv4Address(t) does not raise: four octets, each of one to
\* three decimal digits, without a leading zero, at most 255
Octet(t) ==
    /\ t # <<>> /\ Len(t) <= 3
    /\ \A i \in 1..Len(t) : t[i] \in Digits
    /\ (Len(t) > 1 => t[1] # "0")
    /\ (Len(t) = 3 => \/ t[1] = "1"
                      \/ t[1] = "2" /\ t[2] \in {"0","1","2","3","4"}
                      \/ t[1] = "2" /\ t[2] = "5"
                            /\ t[3] \in {"0","1","2","3","4","5"})

IPv4Address(t) ==
    LET octets == Split(t, ".")
    IN  t # <<>> /\ Len(octets) = 4 /\ \A i \in 1..4 : Octet(octets[i])

\* _parse_hextet(t) does not raise: one to four hexadecimal digits
Hextet(t) ==
    t # <<>> /\ Len(t) <= 4 /\ \A i \in 1..Len(t) : t[i] \in HexDigits

\* IPv6Address._ip_int_from_string(t) does not raise
IPv6Parts(t) ==
    LET \* at most one "::", hi hextets before it and lo after it, or eight
        \* hextets
        Hextets(parts) ==
            LET n == Len(parts)
                empties == {i \in 2..(n - 1) : parts[i] = <<>>}
            IN  /\ n <= 9
                /\ Cardinality(empties) <= 1
                /\ IF empties # {}
                   THEN \E skip \in empties :
                          LET hi == IF parts[1] = <<>> THEN skip - 2 ELSE skip - 1
                              lo == IF parts[n] = <<>> THEN n - skip - 1
                                    ELSE n - skip
                          IN  /\ parts[1] = <<>> => hi = 0
                              /\ parts[n] = <<>> => lo = 0
                              /\ 8 - (hi + lo) >= 1
                              /\ \A i \in 1..hi : Hextet(parts[i])
                              /\ \A i \in (n - lo + 1)..n : Hextet(parts[i])
                   ELSE /\ n = 8
                        /\ \A i \in 1..8 : Hextet(parts[i])
        \* a dotted last part is replaced by the two hextets it stands for
        Parts(split) ==
            LET n0 == Len(split)
                v4 == Find(split[n0], ".", 1) > 0
            IN  /\ t # <<>>
                /\ n0 >= 3
                /\ v4 => IPv4Address(split[n0])
                /\ Hextets(IF v4
                           THEN SubSeq(split, 1, n0 - 1) \o << <<"0">>, <<"0">> >>
                           ELSE split)
    IN  Parts(Split(t, ":"))

\* ipaddress.ip_address(host) gives an IPv6 address: no "/", a scope id
\* after "%", if any, that is not empty and holds no "%"
IPv6Address(host) ==
    LET p == Find(host, "%", 1)
        addr == IF p > 0 THEN Before(host, p) ELSE host
        scope == IF p > 0 THEN From(host, p + 1) ELSE <<>>
    IN  /\ Find(host, "/", 1) = 0
        /\ (p > 0 => scope # <<>> /\ Find(scope, "%", 1) = 0)
        /\ IPv6Parts(addr)

\* _check_bracketed_host(host) does not raise: an IPvFuture address, "v",
\* hexadecimal digits, ".", and at least one more character, or an IPv6
\* address
BracketedHost(host) ==
    IF host # <<>> /\ host[1] = "v"
    THEN \E d \in 3..(Len(host) - 1) :
            /\ host[d] = "."
            /\ \A k \in 2..(d - 1) : host[k] \in HexDigits
            /\ \A k \in (d + 1)..Len(host) : host[k] # "\n"
    ELSE IPv6Address(host)

\* the netloc holds one bracket without the other, or brackets around what
\* is no address
NetlocRaises(netloc) ==
    LET open == Find(netloc, "[", 1)
        close == Find(netloc, "]", 1)
        Unbracketed(inner) ==
            \/ (open > 0) # (close > 0)
            \/ /\ open > 0 /\ close > 0
               /\ ~BracketedHost(IF Find(inner, "]", 1) > 0
                                 THEN Before(inner, Find(inner, "]", 1))
                                 ELSE inner)
    IN  Unbracketed(From(netloc, open + 1))

\* urlsplit(url, scheme): err when it raises ValueError.  The scheme given
\* is empty or the scheme of the base, with nothing to strip from it.
UrlSplit(url, scheme) ==
    LET \* what follows the netloc: the fragment after the first "#", the
        \* query after the first "?" before it
        Rest(sch, netloc, u3) ==
            LET h == Find(u3, "#", 1)
                Path(u4) ==
                    LET q == Find(u4, "?", 1)
                    IN  [err |-> NetlocRaises(netloc),
                         scheme |-> sch,
                         netloc |-> netloc,
                         path |-> IF q > 0 THEN Before(u4, q) ELSE u4,
                         query |-> IF q > 0 THEN From(u4, q + 1) ELSE <<>>,
                         fragment |-> IF h > 0 THEN From(u3, h + 1) ELSE <<>>]
            IN  Path(IF h > 0 THEN Before(u3, h) ELSE u3)
        \* _splitnetloc(url, 2): up to the first of "/", "?" and "#"
        Netloc(sch, u2) ==
            LET net == Len(u2) >= 2 /\ u2[1] = "/" /\ u2[2] = "/"
                ends == {k \in 3..Len(u2) : u2[k] \in {"/", "?", "#"}}
                e == IF ends = {} THEN Len(u2) + 1
                     ELSE CHOOSE k \in ends : \A j \in ends : k <= j
            IN  Rest(sch, IF net THEN SubSeq(u2, 3, e - 1) ELSE <<>>,
                     IF net THEN From(u2, e) ELSE u2)
        \* the scheme of the address itself, if it starts with one
        Stripped(u1) ==
            LET i == Find(u1, ":", 1)
                own == /\ i > 1
                       /\ u1[1] \in AsciiLetters
                       /\ \A k \in 1..(i - 1) : u1[k] \in scheme_chars
            IN  Netloc(IF own THEN Lower(Before(u1, i)) ELSE scheme,
                       IF own THEN From(u1, i + 1) ELSE u1)
    IN  Stripped(Without(LStripOf(url, C0ControlOrSpace), UnsafeUrlBytes))

\* urlparse(url, scheme): the path of urlsplit less its params, the text
\* after the first ";" of the last segment
UrlParse(url, scheme) ==
    LET Params(r) ==
            LET slash == RFind(r.path, "/")
                semi == Find(r.path, ";", IF slash > 0 THEN slash ELSE 1)
                cut == r.scheme \in uses_params /\ semi > 0
            IN  [err |-> r.err, scheme |-> r.scheme, netloc |-> r.netloc,
                 path |-> IF cut THEN Before(r.path, semi) ELSE r.path,
                 params |-> IF cut THEN From(r.path, semi + 1) ELSE <<>>,
                 query |-> r.query, fragment |-> r.fragment]
    IN  Params(UrlSplit(url, scheme))

\* urlunsplit((scheme, netloc, url, query, fragment))
UrlUnsplit(scheme, netloc, url, query, fragment) ==
    (IF scheme # <<>> THEN scheme \o <<":">> ELSE <<>>)
    \o (IF \/ netloc # <<>>
           \/ /\ scheme # <<>> /\ scheme \in uses_netloc
              /\ ~(Len(url) >= 2 /\ url[1] = "/" /\ url[2] = "/")
        THEN <<"/", "/">> \o netloc
             \o (IF url # <<>> /\ url[1] # "/" THEN <<"/">> ELSE <<>>)
        ELSE <<>>)
    \o url
    \o (IF query # <<>> THEN <<"?">> \o query ELSE <<>>)
    \o (IF fragment # <<>> THEN <<"#">> \o fragment ELSE <<>>)

\* urlunparse((scheme, netloc, path, params, query, fragment))
UrlUnparse(scheme, netloc, path, params, query, fragment) ==
    UrlUnsplit(scheme, netloc,
               IF params # <<>> THEN path \o <<";">> \o params ELSE path,
               query, fragment)

\* the segments of the path resolved: ".." removes the segment before it,
\* if there is one, and "." is passed over
RECURSIVE Resolved(_, _)
Resolved(segments, done) ==
    IF segments = <<>> THEN done
    ELSE IF Head(segments) = <<".", ".">>
         THEN Resolved(Tail(segments),
                       IF done = <<>> THEN done
                       ELSE SubSeq(done, 1, Len(done) - 1))
    ELSE IF Head(segments) = <<".">> THEN Resolved(Tail(segments), done)
    ELSE Resolved(Tail(segments), Append(done, Head(segments)))

\* the path urljoin gives a relative address: the segments of the base less
\* its last, then those of the address, resolved
MergedPath(bpath, upath) ==
    LET BaseParts(bsplit) ==
            IF bsplit[Len(bsplit)] # <<>>
            THEN SubSeq(bsplit, 1, Len(bsplit) - 1) ELSE bsplit
        \* segments[1:-1] = filter(None, segments[1:-1])
        Filtered(joined) ==
            IF Len(joined) <= 2 THEN joined
            ELSE <<joined[1]>>
                 \o SelectSeq(SubSeq(joined, 2, Len(joined) - 1),
                              LAMBDA seg : seg # <<>>)
                 \o <<joined[Len(joined)]>>
        NonEmpty(path) == IF path = <<>> THEN <<"/">> ELSE path
        Closed(segments, resolved) ==
            NonEmpty(Join(<<"/">>,
                          IF segments[Len(segments)] \in {<<".">>, <<".", ".">>}
                          THEN Append(resolved, <<>>) ELSE resolved))
        Path(segments) == Closed(segments, Resolved(segments, <<>>))
        Segments(usplit) ==
            IF upath # <<>> /\ upath[1] = "/" THEN usplit
            ELSE Filtered(BaseParts(Split(bpath, "/")) \o usplit)
    IN  Path(Segments(Split(upath, "/")))

\* urljoin(base, url): the text, or ValueError when urlsplit raises
UrlJoinTo(base, url) ==
    LET Joined(b, u) ==
            LET netloc == IF u.scheme \in uses_netloc THEN b.netloc ELSE u.netloc
            IN  IF b.err \/ u.err THEN ValueError
                ELSE IF u.scheme # b.scheme \/ u.scheme \notin uses_relative
                THEN url
                ELSE IF u.scheme \in uses_netloc /\ u.netloc # <<>>
                THEN UrlUnparse(u.scheme, u.netloc, u.path, u.params, u.query,
                                u.fragment)
                ELSE IF u.path = <<>> /\ u.params = <<>>
                THEN UrlUnparse(u.scheme, netloc, b.path, b.params,
                                IF u.query = <<>> THEN b.query ELSE u.query,
                                u.fragment)
                ELSE UrlUnparse(u.scheme, netloc, MergedPath(b.path, u.path),
                                u.params, u.query, u.fragment)
        Parsed(b) == Joined(b, UrlParse(url, b.scheme))
    IN  IF base = <<>> THEN url
        ELSE IF url = <<>> THEN base
        ELSE Parsed(UrlParse(base, <<>>))

\* response.urljoin(url) on the page
UrlJoin(rel) == UrlJoinTo(BaseUrl, rel)

\* Values of the data dict of a row: plain text, {"label", "url"}, {"url"}.
StrValue(t) == [kind |-> "str", text |-> t, url |-> None]
LinkValue(label, url) == [kind |-> "link", text |-> label, url |-> url]
UrlValue(url) == [kind |-> "urlonly", text |-> None, url |-> url]

\* the keys of the data dict that the code names
H_Name == <<"N","a","m","e">>
H_MeetingDate == <<"M","e","e","t","i","n","g"," ","D","a","t","e">>
H_MeetingTime == <<"M","e","e","t","i","n","g"," ","T","i","m","e">>
H_MeetingLocation == <<"M","e","e","t","i","n","g"," ","L","o","c","a","t","i","o","n">>
H_MeetingDetails == <<"M","e","e","t","i","n","g"," ","D","e","t","a","i","l","s">>
H_iCalendar == <<"i","C","a","l","e","n","d","a","r">>
H_ics == <<"i","c","s">>
H_Agenda == <<"A","g","e","n","d","a">>
H_Minutes == <<"M","i","n","u","t","e","s">>
H_Video == <<"V","i","d","e","o">>
H_Audio == <<"A","u","d","i","o">>

\* A cell: its text nodes, and the attributes of its first anchor if any.
TextCell(nodes) ==
    [texts |-> nodes, hasA |-> FALSE, onclick |-> None, href |-> None]
AnchorCell(nodes, onclick, href) ==
    [texts |-> nodes, hasA |-> TRUE, onclick |-> onclick, href |-> href]

\* A header cell: its text nodes, the value attribute of each of its input
\* elements and the alt attribute of each of its img elements, None for an
\* element without the attribute.
HeaderCell(nodes, inputs, imgs) ==
    [texts |-> nodes, inputs |-> inputs, imgs |-> imgs]
TextTh(t) == HeaderCell(<<t>>, <<>>, <<>>)

Raised == [err |-> TRUE]

\* the header of one th cell: its text; without text the value of its first
\* input, KeyError (Raised) when that input has no value; without input the
\* alt of its first img, "" when it has none; without img ""
HeaderOf(th) ==
    LET header_text == Strip(Replace(Join(<<" ">>, th.texts), Nbsp, <<" ">>))
    IN  IF header_text # <<>> THEN [err |-> FALSE, header |-> header_text]
        ELSE IF Len(th.inputs) > 0
        THEN (IF th.inputs[1] = None THEN Raised
              ELSE [err |-> FALSE, header |-> th.inputs[1]])
        ELSE IF Len(th.imgs) > 0
        THEN [err |-> FALSE,
              header |-> IF th.imgs[1] = None THEN <<>> ELSE th.imgs[1]]
        ELSE [err |-> FALSE, header |-> <<>>]

\* the list headers built from the th cells of a table; err when a cell
\* raises KeyError, which nothing in _parse_legistar_events catches
TableHeaders(ths) ==
    IF \E i \in 1..Len(ths) : HeaderOf(ths[i]).err
    THEN [err |-> TRUE, headers |-> <<>>]
    ELSE [err |-> FALSE, headers |-> [i \in 1..Len(ths) |-> HeaderOf(ths[i]).header]]

\* field_text of one cell
FieldText(cell) == Strip(Replace(Join(<<" ">>, cell.texts), Nbsp, <<" ">>))

\* response.urljoin(rel) inside the try: Raised for its ValueError
ResponseUrlJoin(rel) ==
    LET Joined(url) ==
            IF url = ValueError THEN Raised ELSE [err |-> FALSE, url |-> url]
    IN  Joined(UrlJoin(rel))

\* url of one cell: None, a joined address, or Raised (IndexError of
\* split("'")[1] on a recognised onclick without a quoted address,
\* ValueError of urljoin)
CellUrl(cell) ==
    IF ~cell.hasA THEN [err |-> FALSE, url |-> None]
    ELSE IF cell.onclick # None
            /\ \E p \in OnclickPrefixes : StartsWith(cell.onclick, p)
         THEN LET parts == Split(cell.onclick, "'")
              IN  IF Len(parts) < 2 THEN Raised
                  ELSE ResponseUrlJoin(parts[2])
         ELSE IF cell.href # None
              THEN ResponseUrlJoin(cell.href)
              ELSE [err |-> FALSE, url |-> None]

\* (header, value) stored for one cell whose url is u and whose field_text
\* is t
CellEntry(header, u, t) ==
    IF u # None /\ u # <<>>
    THEN IF header \in {<<>>, H_ics} /\ Contains(u, IcalMarker)
         THEN [header |-> H_iCalendar, value |-> UrlValue(u)]
         ELSE [header |-> header, value |-> LinkValue(t, u)]
    ELSE [header |-> header, value |-> StrValue(t)]

\* zip(headers, row.css("td")): by position, up to the shorter of the two
ZipLen(headers, row) ==
    IF Len(row) < Len(headers) THEN Len(row) ELSE Len(headers)

\* The data dict of a row under the headers of its table: later cells
\* overwrite earlier ones of the same header; Raised when some zipped cell
\* raises.
RowData(headers, row) ==
    LET n == ZipLen(headers, row)
        Data(e) ==
            LET last(h) == CHOOSE i \in 1..n :
                             /\ e[i].header = h
                             /\ \A j \in 1..n : e[j].header = h => j <= i
            IN  [err |-> FALSE,
                 data |-> [h \in {e[i].header : i \in 1..n} |-> e[last(h)].value]]
        Cells(url) ==
            IF \E i \in 1..n : url[i].err THEN Raised
            ELSE Data([i \in 1..n |->
                         CellEntry(headers[i], url[i].url, FieldText(row[i]))])
    IN  Cells([i \in 1..n |-> CellUrl(row[i])])

-----------------------------------------------------------------------------
(* The tables that pages are made of.  A table names the layout of its     *)
(* header row and its rows by their ids in these catalogues; a row is the  *)
(* sequence of its cells.                                                  *)

T_Council == <<"C","o","u","n","c","i","l">>
T_Zoning == <<"Z","o","n","i","n","g">>
T_date == <<"1","/","2","/","2","0","2","1">>
T_time == <<"9",":","0","0"," ","A","M">>
T_hall == <<"H","a","l","l">>
T_room == <<"R","o","o","m","&","n","b","s","p",";">>
T_cancelled == <<"C","a","n","c","e","l","l","e","d">>
Ical1 == <<"V","i","e","w",".","a","s","h","x","?","M","=","I","C","&","I","D","=","1">>

\* std: five columns, the last without any header content.
\* legistar: the header row of the Legistar calendar, whose third column
\* holds an img with an empty alt.
\* input: headers given by the value of an input, by text with &nbsp; and by
\* the alt of an img; a last img without alt.
\* noval: a header cell with an input that has no value.
ThLayouts ==
    [std |-> <<TextTh(H_Name), TextTh(H_MeetingDate), TextTh(H_MeetingTime),
               TextTh(H_MeetingLocation), HeaderCell(<<>>, <<>>, <<>>)>>,
     legistar |-> <<TextTh(H_Name), HeaderCell(<<<<"M","e","e","t","i","n","g">>, <<"D","a","t","e">>>>, <<>>, <<>>),
                    HeaderCell(<<>>, <<>>, <<<<>>>>), TextTh(H_MeetingTime),
                    TextTh(H_MeetingLocation), TextTh(H_MeetingDetails),
                    TextTh(H_Agenda), TextTh(H_Minutes)>>,
     input |-> <<HeaderCell(<<<<" ">>>>, <<H_Name, H_MeetingDate>>, <<H_ics>>),
                 TextTh(<<"M","e","e","t","i","n","g","&","n","b","s","p",";","D","a","t","e">>),
                 HeaderCell(<<>>, <<>>, <<H_ics, H_Name>>),
                 TextTh(H_MeetingTime \o <<"\r">>),
                 HeaderCell(<<>>, <<>>, <<None>>)>>,
     noval |-> <<TextTh(H_Name), HeaderCell(<<<<"\t">>>>, <<None, H_Name>>, <<H_ics>>)>>]

LayoutIds == DOMAIN ThLayouts

\* headers of every layout
Headers == [h \in LayoutIds |-> TableHeaders(ThLayouts[h])]

\* Name links to m1 through a radopen popup; five cells, the last an ics link
Row_m1 ==
    << AnchorCell(<<T_Council>>, <<"r","a","d","o","p","e","n","(","'","m","1","'",")">>, None),
       TextCell(<<T_date>>), TextCell(<<T_time>>), TextCell(<<T_hall>>),
       AnchorCell(<<>>, None, Ical1) >>

\* the same meeting again, formatted differently: plain href, other label,
\* other location, padded texts
Row_m1_again ==
    << AnchorCell(<<<<" ">>, T_Zoning>>, None, BaseDir \o <<"m","1">>),
       TextCell(<<T_date, <<>>>>), TextCell(<<T_time>>), TextCell(<<T_room>>) >>

\* Name carries an anchor with an unrecognised onclick and no href: no url
Row_nolink ==
    << AnchorCell(<<T_Council>>, <<"p","o","p","u","p","(","'","m","9","'",")">>, None),
       TextCell(<<T_date>>), TextCell(<<T_time>>) >>

\* recognised onclick prefix without a quoted address: extraction raises
Row_bad ==
    << AnchorCell(<<T_Council>>, <<"w","i","n","d","o","w",".","o","p","e","n","(","m","1",")">>, <<"m","1">>),
       TextCell(<<T_date>>), TextCell(<<T_time>>), TextCell(<<T_hall>>) >>

\* an address that urljoin refuses: extraction raises
Row_badurl ==
    << AnchorCell(<<T_Council>>, None, <<"/","/","[","m","1">>),
       TextCell(<<T_date>>), TextCell(<<T_time>>), TextCell(<<T_hall>>) >>

\* two different meetings whose texts contain the separator
Row_bar_date ==
    << AnchorCell(<<T_Council>>, None, <<"m">>),
       TextCell(<<<<"1","|","9">>>>), TextCell(<<<<"9">>>>) >>
Row_bar_url ==
    << AnchorCell(<<T_Council>>, None, <<"m","|","1">>),
       TextCell(<<<<"9">>>>), TextCell(<<<<"9">>>>) >>

\* rows without a time, with a date that is no date, with a time that is
\* no time and a location that tells of a cancellation
Row_notime ==
    << AnchorCell(<<T_Council>>, None, <<"m","2">>),
       TextCell(<<T_date>>), TextCell(<<>>) >>
Row_baddate ==
    << AnchorCell(<<T_Council>>, None, <<"m","3">>),
       TextCell(<<<<"T","B","D">>>>), TextCell(<<T_time>>) >>
Row_badtime ==
    << AnchorCell(<<T_Council>>, None, <<"m","4">>),
       TextCell(<<T_date>>), TextCell(<<<<"T","B","D">>>>),
       TextCell(<<T_cancelled>>) >>

\* a row of the Legistar calendar: eight cells, the third the ics link, the
\* date linked to a day's list with an apostrophe in its label
Row_legistar ==
    << AnchorCell(<<T_Council>>, None, <<"m","5">>),
       AnchorCell(<<T_date, <<"'","2","1">>>>, None, <<"d","5">>),
       AnchorCell(<<>>, None, Ical1),
       TextCell(<<T_time>>), TextCell(<<T_hall>>),
       AnchorCell(<<<<"M","e","e","t","i","n","g"," ","d","e","t","a","i","l","s">>>>, None, <<"i","5">>),
       AnchorCell(<<H_Agenda>>, None, <<"a","5">>),
       TextCell(<<<<"N","o","t"," ","a","v","a","i","l","a","b","l","e">>>>) >>

Rows ==
    [m1 |-> Row_m1, m1_again |-> Row_m1_again, nolink |-> Row_nolink,
     bad |-> Row_bad, badurl |-> Row_badurl,
     bar_date |-> Row_bar_date, bar_url |-> Row_bar_url,
     notime |-> Row_notime, baddate |-> Row_baddate, badtime |-> Row_badtime,
     legistar |-> Row_legistar]

RowIds == DOMAIN Rows

\* the data dict of every row of the catalogue under every layout whose
\* headers can be built
Extracted ==
    [h \in {l \in LayoutIds : ~Headers[l].err} |->
        [id \in RowIds |-> RowData(Headers[h].headers, Rows[id])]]

\* data.get(h): the stored value, or absent
Has(data, h) == h \in DOMAIN data

\* the characters repr writes as \xhh, each with what it writes
HexEscapes ==
    << <<"", <<"\\","x","0","1">>>>,
       <<"", <<"\\","x","0","2">>>>,
       <<"", <<"\\","x","0","3">>>>,
       <<"", <<"\\","x","0","4">>>>,
       <<"", <<"\\","x","0","5">>>>,
       <<"", <<"\\","x","0","6">>>>,
       <<"", <<"\\","x","0","7">>>>,
       <<"", <<"\\","x","0","8">>>>,
       <<"", <<"\\","x","0","b">>>>,
       <<"\f", <<"\\","x","0","c">>>>,
       <<"", <<"\\","x","0","e">>>>,
       <<"", <<"\\","x","0","f">>>>,
       <<"", <<"\\","x","1","0">>>>,
       <<"", <<"\\","x","1","1">>>>,
       <<"", <<"\\","x","1","2">>>>,
       <<"", <<"\\","x","1","3">>>>,
       <<"", <<"\\","x","1","4">>>>,
       <<"", <<"\\","x","1","5">>>>,
       <<"", <<"\\","x","1","6">>>>,
       <<"", <<"\\","x","1","7">>>>,
       <<"", <<"\\","x","1","8">>>>,
       <<"", <<"\\","x","1","9">>>>,
       <<"", <<"\\","x","1","a">>>>,
       <<"", <<"\\","x","1","b">>>>,
       <<"", <<"\\","x","1","c">>>>,
       <<"", <<"\\","x","1","d">>>>,
       <<"", <<"\\","x","1","e">>>>,
       <<"", <<"\\","x","1","f">>>>,
       <<"", <<"\\","x","7","f">>>>,
       <<"", <<"\\","x","8","0">>>>,
       <<"", <<"\\","x","8","1">>>>,
       <<"", <<"\\","x","8","2">>>>,
       <<"", <<"\\","x","8","3">>>>,
       <<"", <<"\\","x","8","4">>>>,
       <<"", <<"\\","x","8","5">>>>,
       <<"", <<"\\","x","8","6">>>>,
       <<"", <<"\\","x","8","7">>>>,
       <<"", <<"\\","x","8","8">>>>,
       <<"", <<"\\","x","8","9">>>>,
       <<"", <<"\\","x","8","a">>>>,
       <<"", <<"\\","x","8","b">>>>,
       <<"", <<"\\","x","8","c">>>>,
       <<"", <<"\\","x","8","d">>>>,
       <<"", <<"\\","x","8","e">>>>,
       <<"", <<"\\","x","8","f">>>>,
       <<"", <<"\\","x","9","0">>>>,
       <<"", <<"\\","x","9","1">>>>,
       <<"", <<"\\","x","9","2">>>>,
       <<"", <<"\\","x","9","3">>>>,
       <<"", <<"\\","x","9","4">>>>,
       <<"", <<"\\","x","9","5">>>>,
       <<"", <<"\\","x","9","6">>>>,
       <<"", <<"\\","x","9","7">>>>,
       <<"", <<"\\","x","9","8">>>>,
       <<"", <<"\\","x","9","9">>>>,
       <<"", <<"\\","x","9","a">>>>,
       <<"", <<"\\","x","9","b">>>>,
       <<"", <<"\\","x","9","c">>>>,
       <<"", <<"\\","x","9","d">>>>,
       <<"", <<"\\","x","9","e">>>>,
       <<"", <<"\\","x","9","f">>>>,
       <<" ", <<"\\","x","a","0">>>>,
       <<"­", <<"\\","x","a","d">>>> >>

\* repr of one character inside the quotes q
ReprChar(c, q) ==
    IF c = q \/ c = "\\" THEN <<"\\", c>>
    ELSE IF c = "\t" THEN <<"\\", "t">>
    ELSE IF c = "\n" THEN <<"\\", "n">>
    ELSE IF c = "\r" THEN <<"\\", "r">>
    ELSE IF \E i \in 1..Len(HexEscapes) : HexEscapes[i][1] = c
    THEN HexEscapes[CHOOSE i \in 1..Len(HexEscapes) : HexEscapes[i][1] = c][2]
    ELSE <<c>>

RECURSIVE ReprChars(_, _)
ReprChars(t, q) ==
    IF t = <<>> THEN <<>> ELSE ReprChar(Head(t), q) \o ReprChars(Tail(t), q)

\* repr(t) of a text: in double quotes when it holds ' and no ", else in
\* single quotes; the quote, the backslash and what does not print escaped
Repr(t) ==
    LET has(c) == \E i \in 1..Len(t) : t[i] = c
        q == IF has("'") /\ ~has("\"") THEN "\"" ELSE "'"
    IN  <<q>> \o ReprChars(t, q) \o <<q>>

\* str() of a value inside an f-string: the text, or the dict as str
\* writes it
StrOf(v) ==
    IF v.kind = "str" THEN v.text
    ELSE IF v.kind = "link"
    THEN <<"{","'","l","a","b","e","l","'",":"," ">> \o Repr(v.text) \o <<","," ","'","u","r","l","'",":"," ">> \o Repr(v.url) \o <<"}">>
    ELSE <<"{","'","u","r","l","'",":"," ">> \o Repr(v.url) \o <<"}">>

\* name_url: the url of Name when Name is a dict, else ""
NameUrl(data) ==
    IF Has(data, H_Name) /\ data[H_Name].kind # "str"
    THEN data[H_Name].url
    ELSE <<>>

\* data.get(h, "") as rendered in the key
KeyPart(data, h) == IF Has(data, h) THEN StrOf(data[h]) ELSE <<>>

\* unique_key = f"{name_url}|{meeting_date}|{meeting_time}"
UniqueKey(data) ==
    NameUrl(data) \o <<"|">> \o KeyPart(data, H_MeetingDate)
                  \o <<"|">> \o KeyPart(data, H_MeetingTime)

\* Faulty variant: a row whose extraction raises ends the loop.
RECURSIVE ParseRowsAbortOnError(_, _, _, _)
ParseRowsAbortOnError(h, rows, seen, events) ==
    IF rows = <<>> THEN [seen |-> seen, events |-> events]
    ELSE LET rd == Extracted[h][Head(rows)]
         IN  IF rd.err
             THEN [seen |-> seen, events |-> events]
             ELSE IF UniqueKey(rd.data) \in seen
                  THEN ParseRowsAbortOnError(h, Tail(rows), seen, events)
                  ELSE ParseRowsAbortOnError(h, Tail(rows),
                                             seen \cup {UniqueKey(rd.data)},
                                             Append(events, rd.data))

\* Faulty variant: a raising row loses the events collected before it.
RECURSIVE ParseRowsErrorClearsEvents(_, _, _, _)
ParseRowsErrorClearsEvents(h, rows, seen, events) ==
    IF rows = <<>> THEN [seen |-> seen, events |-> events]
    ELSE LET rd == Extracted[h][Head(rows)]
         IN  IF rd.err
             THEN ParseRowsErrorClearsEvents(h, Tail(rows), seen, <<>>)
             ELSE IF UniqueKey(rd.data) \in seen
                  THEN ParseRowsErrorClearsEvents(h, Tail(rows), seen, events)
                  ELSE ParseRowsErrorClearsEvents(h, Tail(rows),
                                                  seen \cup {UniqueKey(rd.data)},
                                                  Append(events, rd.data))

\* The loop over the rows of one table whose headers are those of layout h:
\* seen is self._scraped_urls, events the list being built.
RECURSIVE ParseRows(_, _, _, _)
ParseRows(h, rows, seen, events) ==
    LET Row(rd, unique_key) ==
            IF rd.err
            THEN ParseRows(h, Tail(rows), seen, events)
            ELSE IF unique_key \in seen
                 THEN ParseRows(h, Tail(rows), seen, events)
                 ELSE ParseRows(h, Tail(rows), seen \cup {unique_key},
                                Append(events, rd.data))
        Extract(rd) == Row(rd, UniqueKey(rd.data))
    IN  IF rows = <<>> THEN [seen |-> seen, events |-> events]
        ELSE Extract(Extracted[h][Head(rows)])

\* The loop over tables of the spider's version: every rgMasterTable, its
\* headers, then its rows.  The KeyError of a header leaves the call: the
\* keys added for the tables before stay in self._scraped_urls, the events
\* collected for them are not returned.
RECURSIVE ParseTables(_, _, _)
ParseTables(tables, seen, events) ==
    IF tables = <<>> THEN [raised |-> FALSE, seen |-> seen, events |-> events]
    ELSE IF Headers[Head(tables).ths].err
    THEN [raised |-> TRUE, seen |-> seen, events |-> <<>>]
    ELSE LET Rest(r) == ParseTables(Tail(tables), r.seen, r.events)
         IN  Rest(ParseRows(Head(tables).ths, Head(tables).rows, seen, events))

IsCalendar(t) == t.grid = "gridCalendar"

\* Faulty variant: the mixin goes through every table of the page.
MixinParseEventsAllTables(page, seen) == ParseTables(page, seen, <<>>)

\* KancitMissouricityMixin._parse_legistar_events: the first calendar table
MixinParseEvents(page, seen) ==
    IF \A i \in 1..Len(page) : ~IsCalendar(page[i])
    THEN [raised |-> FALSE, seen |-> seen, events |-> <<>>]
    ELSE ParseTables(<<page[CHOOSE k \in 1..Len(page) :
                              /\ IsCalendar(page[k])
                              /\ \A j \in 1..(k - 1) : ~IsCalendar(page[j])]>>,
                     seen, <<>>)

\* KancitMissouricitySpider._parse_legistar_events: all tables
SpiderParseEvents(page, seen) == ParseTables(page, seen, <<>>)

\* Faulty variant: the set of seen keys starts empty on every page.
ParseEventsFreshSet(i, page, seen) ==
    IF i = "mixin" THEN MixinParseEvents(page, {})
    ELSE SpiderParseEvents(page, {})

ParseEvents(i, page, seen) ==
    IF i = "mixin" THEN MixinParseEvents(page, seen)
    ELSE SpiderParseEvents(page, seen)

-----------------------------------------------------------------------------
(* The pages the crawl is run on.                                          *)

MaxRows == 2
MaxPages == 2

Table(grid, ths, rows) == [grid |-> grid, ths |-> ths, rows |-> rows]

Upcoming == Table("gridUpcomingMeetings", "std", <<"m1">>)

\* rows of the pages of the crawl run below: under the std layout, and
\* under the other layouts
CrawlRowIds == {"m1", "m1_again", "nolink", "bad", "bar_date", "bar_url"}
LayoutRowIds == {"m1", "legistar", "badurl"}

CalendarTables ==
    {Table("gridCalendar", "std", rs) : rs \in SeqsUpTo(CrawlRowIds, MaxRows)}
    \cup {Table("gridCalendar", h, rs) :
             h \in LayoutIds, rs \in SeqsUpTo(LayoutRowIds, MaxRows)}

\* a page holds no table, or the upcoming table, the calendar table or both
Pages ==
    {<<>>, <<Upcoming>>}
    \cup {<<c>> : c \in CalendarTables}
    \cup {<<Upcoming, c>> : c \in CalendarTables}

-----------------------------------------------------------------------------
(* The crawl run of a Legistar table source.                               *)

\* the tables a call goes through, in order: every table up to the first
\* whose headers raise for the spider, the first calendar table for the
\* mixin
TablesOf(i, page) ==
    IF i = "spider" THEN page
    ELSE IF \A k \in 1..Len(page) : ~IsCalendar(page[k]) THEN <<>>
    ELSE <<page[CHOOSE k \in 1..Len(page) :
                   IsCalendar(page[k]) /\ \A j \in 1..(k - 1) : ~IsCalendar(page[j])]>>

\* the rows of the tables, in order, each with the layout of its table; the
\* rows from the first table whose headers raise are not reached
RECURSIVE AllRows(_)
AllRows(tables) ==
    IF tables = <<>> \/ Headers[Head(tables).ths].err THEN <<>>
    ELSE [i \in 1..Len(Head(tables).rows) |->
             <<Head(tables).ths, Head(tables).rows[i]>>]
         \o AllRows(Tail(tables))

\* the rows a call goes through, in order
VisitedRows(i, page) == AllRows(TablesOf(i, page))

\* the data dict of a row under its layout
DataOf(ref) == Extracted[ref[1]][ref[2]]

GoodRow(ref) == ~DataOf(ref).err

\* the rows of a table whose extraction does not raise
RECURSIVE SelectGood(_, _)
SelectGood(h, rows) ==
    IF rows = <<>> \/ Headers[h].err THEN rows
    ELSE IF GoodRow(<<h, Head(rows)>>)
    THEN <<Head(rows)>> \o SelectGood(h, Tail(rows))
    ELSE SelectGood(h, Tail(rows))

CleanPage(page) ==
    [k \in 1..Len(page) |->
        Table(page[k].grid, page[k].ths, SelectGood(page[k].ths, page[k].rows))]

\* the first good row of each key among rows, for keys not yet recorded
FirstRows(rows, known) ==
    LET knownKeys == {f.key : f \in known}
        Firsts(data, key) ==
            {[key |-> key[i], data |-> data[i]] :
                i \in {j \in 1..Len(data) :
                         /\ key[j] \notin knownKeys
                         /\ \A h \in 1..(j - 1) : key[h] # key[j]}}
        Keyed(data) == Firsts(data, [i \in 1..Len(data) |-> UniqueKey(data[i])])
        Good(rd) ==
            Keyed([i \in 1..Len(SelectSeq(rd, LAMBDA r : ~r.err)) |->
                      SelectSeq(rd, LAMBDA r : ~r.err)[i].data])
    IN  Good([i \in 1..Len(rows) |-> DataOf(rows[i])])

\* What a call has to skip among the rows it visits: n is their number,
\* errAt the positions of the rows whose extraction raises, dupAt the
\* positions and dups the data of the rows whose key came earlier in the
\* run, keys the keys of the rows whose extraction does not raise.
SkipsOf(rows, seen) ==
    LET Skips(rd, good, key, dupAt) ==
            [n |-> Len(rows),
             errAt |-> (1..Len(rows)) \ good,
             dupAt |-> dupAt,
             dups |-> {rd[i].data : i \in dupAt},
             keys |-> {key[i] : i \in good}]
        Dups(rd, good, key) ==
            Skips(rd, good, key,
                  {j \in good :
                     \/ key[j] \in seen
                     \/ \E h \in good : h < j /\ key[h] = key[j]})
        Keyed(rd, good) ==
            Dups(rd, good, [i \in good |-> UniqueKey(rd[i].data)])
        Good(rd) == Keyed(rd, {i \in 1..Len(rows) : ~rd[i].err})
    IN  Good([i \in 1..Len(rows) |-> DataOf(rows[i])])

NoSkips == [n |-> 0, errAt |-> {}, dupAt |-> {}, dups |-> {}, keys |-> {}]

NoEvents == [raised |-> FALSE, seen |-> {}, events |-> <<>>]

LegInit ==
    /\ impl \in {"mixin", "spider"}
    /\ scraped_urls = {}
    /\ returned = <<>>
    /\ calls = 0
    /\ lastEvents = <<>>
    /\ lastRaised = FALSE
    /\ lastSeen = {}
    /\ lastClean = NoEvents
    /\ lastSkips = NoSkips
    /\ firstRow = {}
    /\ lastPage = <<>>

\* one call of _parse_legistar_events on a fetched page
ParseLegistarEvents(page) ==
    /\ calls < MaxPages
    /\ calls' = calls + 1
    /\ \E r \in {ParseEvents(impl, page, scraped_urls)} :
          /\ scraped_urls' = r.seen
          /\ returned' = returned \o r.events
          /\ lastEvents' = r.events
          /\ lastRaised' = r.raised
    /\ lastSeen' = scraped_urls
    /\ lastClean' = ParseEvents(impl, CleanPage(page), scraped_urls)
    /\ \E visited \in {VisitedRows(impl, page)} :
          /\ lastSkips' = SkipsOf(visited, scraped_urls)
          /\ firstRow' = firstRow \cup FirstRows(visited, firstRow)
    /\ lastPage' = page
        /\ UNCHANGED <<impl, clsVars, locVars, emitVars, linkVars, placeVars, classVars,
                   poolVars>>

LegNext == \E page \in Pages : ParseLegistarEvents(page)

LegIdle ==
    /\ impl = "mixin"
    /\ scraped_urls = {}
    /\ returned = <<>>
    /\ calls = 0
    /\ lastEvents = <<>>
    /\ lastRaised = FALSE
    /\ lastSeen = {}
    /\ lastClean = NoEvents
    /\ lastSkips = NoSkips
    /\ firstRow = {}
    /\ lastPage = <<>>

-----------------------------------------------------------------------------
(* The title classifiers of the Legistar spider and the CivicClerk mixin.  *)

CITY_COUNCIL == <<"C","i","t","y"," ","C","o","u","n","c","i","l">>
COMMITTEE == <<"C","o","m","m","i","t","t","e","e">>
COMMISSION == <<"C","o","m","m","i","s","s","i","o","n">>
BOARD == <<"B","o","a","r","d">>
NOT_CLASSIFIED == <<"N","o","t"," ","c","l","a","s","s","i","f","i","e","d">>

K_council == <<"c","o","u","n","c","i","l">>
K_committee == <<"c","o","m","m","i","t","t","e","e">>
K_commission == <<"c","o","m","m","i","s","s","i","o","n">>
K_board == <<"b","o","a","r","d">>

\* isinstance(v, dict) and v.get("label", "")
IsDict(v) == v.kind \in {"link", "urlonly"}
Label(v) == IF v.kind = "link" THEN v.text ELSE <<>>

\* Faulty variant: "committee" is tested before "council".
SpiderParseClassificationCommitteeFirst(item) ==
    LET name == IF Has(item, H_Name) /\ IsDict(item[H_Name])
                THEN Lower(Label(item[H_Name]))
                ELSE IF Has(item, H_Name) THEN Lower(item[H_Name].text)
                ELSE <<>>
    IN  IF Contains(name, K_committee) THEN COMMITTEE
        ELSE IF Contains(name, K_council) THEN CITY_COUNCIL
        ELSE IF Contains(name, K_commission) THEN COMMISSION
        ELSE IF Contains(name, K_board) THEN BOARD
        ELSE NOT_CLASSIFIED

\* KancitMissouricitySpider._parse_classification
SpiderParseClassification(item) ==
    LET name == IF Has(item, H_Name) /\ IsDict(item[H_Name])
                THEN Lower(Label(item[H_Name]))
                ELSE IF Has(item, H_Name) THEN Lower(item[H_Name].text)
                ELSE <<>>
    IN  IF Contains(name, K_council) THEN CITY_COUNCIL
        ELSE IF Contains(name, K_committee) THEN COMMITTEE
        ELSE IF Contains(name, K_commission) THEN COMMISSION
        ELSE IF Contains(name, K_board) THEN BOARD
        ELSE NOT_CLASSIFIED

\* Faulty variant: "board" is tested before "commission".
CivicParseClassificationBoardFirst(title) ==
    IF Contains(Lower(title), K_committee) THEN COMMITTEE
    ELSE IF Contains(Lower(title), K_board) THEN BOARD
    ELSE IF Contains(Lower(title), K_commission) THEN COMMISSION
    ELSE NOT_CLASSIFIED

\* CivicClerkMixin._parse_classification(title)
CivicParseClassification(title) ==
    IF Contains(Lower(title), K_committee) THEN COMMITTEE
    ELSE IF Contains(Lower(title), K_commission) THEN COMMISSION
    ELSE IF Contains(Lower(title), K_board) THEN BOARD
    ELSE NOT_CLASSIFIED

\* Titles are made of up to MaxFrags of these fragments.
MaxFrags == 3

TitleFrags ==
    { <<"C","i","t","y"," ","C","o","u","n","c","i","l">>,
      <<"C","o","m","m","i","t","t","e","e">>,
      <<"C","O","M","M","I","S","S","I","O","N">>,
      <<"b","o","a","r","d">>,
      <<"Z","o","n","i","n","g">>,
      <<" ","o","f"," ">> }

RECURSIVE Concat(_)
Concat(parts) == IF parts = <<>> THEN <<>> ELSE Head(parts) \o Concat(Tail(parts))

Titles == {Concat(q) : q \in SeqsUpTo(TitleFrags, MaxFrags)}

DetailUrl == BaseDir \o <<"m","1">>

ClsInit ==
    /\ clsTitle \in Titles
    /\ clsOut = [done |-> FALSE, str |-> <<>>, dict |-> <<>>, civic |-> <<>>]

ClsIdle ==
    /\ clsTitle = <<>>
    /\ clsOut = [done |-> FALSE, str |-> <<>>, dict |-> <<>>, civic |-> <<>>]

\* _parse_classification of the Legistar spider on an event whose Name is
\* the title as plain text, and on one whose Name is a link labelled with
\* the title; _parse_classification of the CivicClerk mixin on the title
Classify ==
    /\ ~clsOut.done
    /\ clsOut' = [done |-> TRUE,
                  str |-> SpiderParseClassification(H_Name :> StrValue(clsTitle)),
                  dict |-> SpiderParseClassification(
                               H_Name :> LinkValue(clsTitle, DetailUrl)),
                  civic |-> CivicParseClassification(clsTitle)]
    /\ UNCHANGED <<clsTitle, legVars, locVars, emitVars, linkVars, placeVars, classVars,
                   poolVars>>

ClsNext == Classify

-----------------------------------------------------------------------------
(* The location normalizers of the Legistar sources.                       *)

K_zoom == <<"z","o","o","m">>
K_virtual == <<"v","i","r","t","u","a","l">>
K_teams == <<"t","e","a","m","s",".","m","i","c","r","o","s","o","f","t",".","c","o","m">>
K_webex == <<"w","e","b","e","x">>
K_gotomeeting == <<"g","o","t","o","m","e","e","t","i","n","g">>
K_meet_google == <<"m","e","e","t",".","g","o","o","g","l","e",".","c","o","m">>
K_click_here == <<"c","l","i","c","k"," ","h","e","r","e">>
K_conference == <<"c","o","n","f","e","r","e","n","c","e">>
K_meeting == <<"m","e","e","t","i","n","g">>
K_session == <<"s","e","s","s","i","o","n">>
K_passcode == <<"p","a","s","s","c","o","d","e">>
K_password == <<"p","a","s","s","w","o","r","d">>
K_http == <<"h","t","t","p",":","/","/">>
K_https == <<"h","t","t","p","s",":","/","/">>
VirtualMeeting == <<"V","i","r","t","u","a","l"," ","M","e","e","t","i","n","g">>

\* virtual_indicators of _parse_location
VirtualIndicators ==
    {K_zoom, K_virtual, K_teams, K_webex, K_gotomeeting, K_meet_google}

\* the indicators tested line by line in _clean_location_string
LineIndicators == {K_teams, K_zoom, K_webex, K_click_here}

\* \d{n} at position i
DigitsAt(s, i, n) ==
    /\ i + n - 1 <= Len(s)
    /\ \A k \in i..(i + n - 1) : s[k] \in Digits

\* [\s-] at position i
SepAt(s, i) == i <= Len(s) /\ s[i] \in (Whitespace \cup {"-"})

\* re.match(r"^\+?1?[\s-]?\d{3}[\s-]?\d{3}[\s-]?\d{4}", s)
PhoneMatch(s) ==
    \E a, b, c, d, e \in {0, 1} :
        LET p1 == 1 + a
            p2 == p1 + b
            p3 == p2 + c
            p4 == p3 + 3 + d
            p5 == p4 + 3 + e
        IN  /\ (a = 1) => (Len(s) >= 1 /\ s[1] = "+")
            /\ (b = 1) => (Len(s) >= p1 /\ s[p1] = "1")
            /\ (c = 1) => SepAt(s, p2)
            /\ DigitsAt(s, p3, 3)
            /\ (d = 1) => SepAt(s, p3 + 3)
            /\ DigitsAt(s, p4, 3)
            /\ (e = 1) => SepAt(s, p4 + 3)
            /\ DigitsAt(s, p5, 4)

\* re.search(r"conference\s*(id|no|number)", line, re.IGNORECASE)
ConferenceSearch(line) ==
    LET l == Lower(line)
    IN  \E i \in 1..Len(l) :
            /\ StartsWith(From(l, i), K_conference)
            /\ LET r == LStrip(From(l, i + Len(K_conference)))
               IN  \/ StartsWith(r, <<"i","d">>)
                   \/ StartsWith(r, <<"n","o">>)
                   \/ StartsWith(r, <<"n","u","m","b","e","r">>)

\* re.search(r"(meeting\s*id|passcode|password)\s*:", line, re.IGNORECASE)
MeetingIdSearch(line) ==
    LET l == Lower(line)
        colon(r) == StartsWith(LStrip(r), <<":">>)
    IN  \E i \in 1..Len(l) :
            \/ /\ StartsWith(From(l, i), K_meeting)
               /\ LET r == LStrip(From(l, i + Len(K_meeting)))
                  IN  StartsWith(r, <<"i","d">>) /\ colon(From(r, 3))
            \/ /\ StartsWith(From(l, i), K_passcode)
               /\ colon(From(l, i + Len(K_passcode)))
            \/ /\ StartsWith(From(l, i), K_password)
               /\ colon(From(l, i + Len(K_password)))

\* re.match(r"https?://", line, re.IGNORECASE)
UrlMatch(line) ==
    StartsWith(Lower(line), K_http) \/ StartsWith(Lower(line), K_https)

\* re.search(r"(\d{5}(-\d{4})?)", s)
ZipSearch(s) == \E i \in 1..Len(s) : DigitsAt(s, i, 5)

\* does r"\s+(board|committee|commission)?\s*(meeting|session)?\s*$",
\* ignoring case, match the whole of t
TrailMatch(t) ==
    /\ t # <<>>
    /\ Head(t) \in Whitespace
    /\ LET l == Lower(t)
           r1 == LStrip(l)
           after1 == {r1} \cup {From(r1, Len(w) + 1) :
                                  w \in {w \in {K_board, K_committee, K_commission} :
                                           StartsWith(r1, w)}}
       IN  \E u1 \in after1 :
               LET r2 == LStrip(u1)
                   after2 == {r2} \cup {From(r2, Len(w) + 1) :
                                          w \in {w \in {K_meeting, K_session} :
                                                   StartsWith(r2, w)}}
               IN  \E u2 \in after2 : LStrip(u2) = <<>>

\* re.sub of that pattern by "": the text before the leftmost match
TrailSub(s) ==
    IF \E i \in 1..Len(s) : TrailMatch(From(s, i))
    THEN LET i == CHOOSE k \in 1..Len(s) :
                    /\ TrailMatch(From(s, k))
                    /\ \A j \in 1..(k - 1) : ~TrailMatch(From(s, j))
         IN  SubSeq(s, 1, i - 1)
    ELSE s

\* the loop of _clean_location_string: the lines that are kept
RECURSIVE KeptLines(_)
KeptLines(lines) ==
    IF lines = <<>> THEN <<>>
    ELSE LET line == Strip(Head(lines))
             skip == \/ line = <<>>
                     \/ PhoneMatch(line)
                     \/ ConferenceSearch(line)
                     \/ MeetingIdSearch(line)
                     \/ UrlMatch(line)
                     \/ \E ind \in LineIndicators : Contains(Lower(line), ind)
         IN  IF skip THEN KeptLines(Tail(lines))
             ELSE <<line>> \o KeptLines(Tail(lines))

\* KancitMissouricityMixin._clean_location_string
CleanLocationString(s) ==
    Strip(TrailSub(Join(<<" ">>, KeptLines(Split(s, "\n")))))

Location(name, address) == [name |-> name, address |-> address]

\* meeting_location = None: no fallback is configured
NoLocation == [name |-> None, address |-> None]

\* item.get("Meeting Location", ""), and its label when it is a dict
LocationText(item) ==
    IF ~Has(item, H_MeetingLocation) THEN <<>>
    ELSE IF IsDict(item[H_MeetingLocation]) THEN Label(item[H_MeetingLocation])
    ELSE item[H_MeetingLocation].text

\* Faulty variant: the indicators are looked for in the text as written,
\* not in its lowercased form.
MixinParseLocationCaseSensitive(item, meeting_location) ==
    LET raw == LocationText(item)
        str == Strip(raw)
        cleaned == CleanLocationString(str)
    IN  IF raw # <<>> /\ \E ind \in VirtualIndicators : Contains(str, ind)
        THEN Location(VirtualMeeting, <<>>)
        ELSE IF raw # <<>> /\ PhoneMatch(str)
        THEN Location(VirtualMeeting, <<>>)
        ELSE IF raw # <<>> /\ cleaned # <<>> /\ ZipSearch(cleaned)
        THEN Location(<<>>, cleaned)
        ELSE IF meeting_location # NoLocation THEN meeting_location
        ELSE IF raw = <<>> \/ str = <<>> THEN Location(<<>>, <<>>)
        ELSE Location(cleaned, <<>>)

\* Faulty variant: a configured fallback is preferred to a complete address
\* of the event.
MixinParseLocationFallbackFirst(item, meeting_location) ==
    LET raw == LocationText(item)
        str == Strip(raw)
        cleaned == CleanLocationString(str)
    IN  IF raw # <<>> /\ \E ind \in VirtualIndicators : Contains(Lower(str), ind)
        THEN Location(VirtualMeeting, <<>>)
        ELSE IF raw # <<>> /\ PhoneMatch(str)
        THEN Location(VirtualMeeting, <<>>)
        ELSE IF meeting_location # NoLocation THEN meeting_location
        ELSE IF raw # <<>> /\ cleaned # <<>> /\ ZipSearch(cleaned)
        THEN Location(<<>>, cleaned)
        ELSE IF raw = <<>> \/ str = <<>> THEN Location(<<>>, <<>>)
        ELSE Location(cleaned, <<>>)

\* KancitMissouricityMixin._parse_location, meeting_location the configured
\* fallback
MixinParseLocation(item, meeting_location) ==
    LET raw == LocationText(item)
        str == Strip(raw)
        cleaned == CleanLocationString(str)
    IN  IF raw # <<>> /\ \E ind \in VirtualIndicators : Contains(Lower(str), ind)
        THEN Location(VirtualMeeting, <<>>)
        ELSE IF raw # <<>> /\ PhoneMatch(str)
        THEN Location(VirtualMeeting, <<>>)
        ELSE IF raw # <<>> /\ cleaned # <<>> /\ ZipSearch(cleaned)
        THEN Location(<<>>, cleaned)
        ELSE IF meeting_location # NoLocation THEN meeting_location
        ELSE IF raw = <<>> \/ str = <<>> THEN Location(<<>>, <<>>)
        ELSE Location(cleaned, <<>>)

\* KancitMissouricitySpider._parse_location
SpiderParseLocation(item) ==
    LET raw == LocationText(item)
        str == Strip(raw)
    IN  IF raw = <<>> THEN Location(<<>>, <<>>)
        ELSE IF Contains(Lower(str), K_zoom) \/ Contains(Lower(str), K_virtual)
        THEN Location(VirtualMeeting, <<>>)
        ELSE IF ZipSearch(str) THEN Location(<<>>, str)
        ELSE Location(str, <<>>)

\* Location texts are made of up to MaxLocParts of these fragments.
MaxLocParts == 2

LocFrags ==
    { <<"Z","o","o","m">>,
      <<"V","I","R","T","U","A","L">>,
      <<"t","e","a","m","s",".","m","i","c","r","o","s","o","f","t",".","c","o","m">>,
      <<"W","e","b","E","x">>,
      <<"G","o","T","o","M","e","e","t","i","n","g">>,
      <<"m","e","e","t",".","g","o","o","g","l","e",".","c","o","m">>,
      <<"8","1","6","-","5","5","5","-","1","2","3","4">>,
      <<"+","1"," ","8","1","6"," ","5","5","5"," ","1","2","3","4">>,
      <<"H","a","l","l">>,
      <<"1","2"," ","S","t",","," ","M","O"," ","6","4","1","0","6">>,
      <<" ">>,
      <<"\n">>,
      <<" ","B","o","a","r","d"," ","M","e","e","t","i","n","g">>,
      <<"C","o","n","f","e","r","e","n","c","e"," ","I","D",":"," ","1">>,
      <<"C","l","i","c","k"," ","h","e","r","e">> }

LocTexts == {Concat(q) : q \in SeqsUpTo(LocFrags, MaxLocParts)}

\* the value of "Meeting Location": absent, plain text, or a link
LocValues ==
    {[kind |-> "absent", text |-> None, url |-> None]}
    \cup {StrValue(t) : t \in LocTexts}
    \cup {LinkValue(t, DetailUrl) : t \in LocTexts}

CityHall ==
    Location(<<"C","i","t","y"," ","H","a","l","l">>,
             <<"4","1","4"," ","E"," ","1","2","t","h"," ","S","t">>)

\* an event holding that value and nothing else
LocItem(v) ==
    IF v.kind = "absent" THEN [h \in {} |-> v]
    ELSE [h \in {H_MeetingLocation} |-> v]

LocInit ==
    /\ locRaw \in LocValues
    /\ locFallback \in {NoLocation, CityHall}
    /\ locOut = [done |-> FALSE, mixin |-> NoLocation, spider |-> NoLocation]

LocIdle ==
    /\ locRaw = [kind |-> "absent", text |-> None, url |-> None]
    /\ locFallback = NoLocation
    /\ locOut = [done |-> FALSE, mixin |-> NoLocation, spider |-> NoLocation]

\* _parse_location of the mixin and of the spider on one event
Locate ==
    /\ ~locOut.done
    /\ locOut' = [done |-> TRUE,
                  mixin |-> MixinParseLocation(LocItem(locRaw), locFallback),
                  spider |-> SpiderParseLocation(LocItem(locRaw))]
    /\ UNCHANGED <<locRaw, locFallback, legVars, clsVars, emitVars, linkVars, placeVars,
                   classVars,
                   poolVars>>

LocNext == Locate

-----------------------------------------------------------------------------
(* Dates and times.  A datetime is <<year, month, day, hour, minute,       *)
(* second, microsecond>>.  A parse result is [err, dt]: err stands for the *)
(* ValueError of the parse, dt is the datetime, or None.                   *)

DigitChars == <<"0","1","2","3","4","5","6","7","8","9">>

IsDigits(s) == s # <<>> /\ \A i \in 1..Len(s) : s[i] \in Digits

\* int(s) of a text of digits
RECURSIVE Num(_)
Num(s) ==
    IF s = <<>> THEN 0
    ELSE 10 * Num(SubSeq(s, 1, Len(s) - 1))
         + (CHOOSE n \in 0..9 : DigitChars[n + 1] = s[Len(s)])

\* a numeric field of strptime: at most w digits, value in lo..hi
NumIn(s, w, lo, hi) == IsDigits(s) /\ Len(s) <= w /\ Num(s) \in lo..hi

\* the %d field: 1..31, or a blank and one digit
DayField(s) ==
    \/ NumIn(s, 2, 1, 31)
    \/ Len(s) = 2 /\ s[1] = " " /\ s[2] \in Digits \ {"0"}

NoDt == [err |-> TRUE, dt |-> None]

IsLeap(y) == y % 4 = 0 /\ (y % 100 # 0 \/ y % 400 = 0)

DaysInMonth(y, mo) ==
    IF mo = 2 THEN (IF IsLeap(y) THEN 29 ELSE 28)
    ELSE IF mo \in {4, 6, 9, 11} THEN 30 ELSE 31

\* datetime(y, mo, d, h, mi, s, us): ValueError outside the calendar
MakeDatetime(y, mo, d, h, mi, s, us) ==
    IF /\ y \in 1..9999 /\ mo \in 1..12 /\ d \in 1..DaysInMonth(y, mo)
       /\ h \in 0..23 /\ mi \in 0..59 /\ s \in 0..59 /\ us \in 0..999999
    THEN [err |-> FALSE, dt |-> <<y, mo, d, h, mi, s, us>>]
    ELSE NoDt

\* the ways to read s as a \s+ b: a text, a run of whitespace, a text
WsSplit(s) ==
    {<<SubSeq(s, 1, q[1]), SubSeq(s, q[2] + 1, Len(s))>> :
        q \in {r \in (0..Len(s)) \X (1..Len(s)) :
                 /\ r[1] < r[2]
                 /\ \A k \in (r[1] + 1)..r[2] : s[k] \in Whitespace}}

\* a date and time written month/day/year hour:minute AM or PM, as
\* datetime.strptime(s, "%m/%d/%Y %I:%M %p") reads it
StrptimeDateTime12(s) ==
    LET p == Split(s, "/")
        q == IF Len(p) = 3 THEN Split(p[3], ":") ELSE <<>>
        yi == IF Len(q) # 2 THEN {}
              ELSE {w \in WsSplit(q[1]) :
                      Len(w[1]) = 4 /\ IsDigits(w[1]) /\ NumIn(w[2], 2, 1, 12)}
        mp == IF Len(q) # 2 THEN {}
              ELSE {w \in WsSplit(q[2]) :
                      /\ NumIn(w[1], 2, 0, 59)
                      /\ Lower(w[2]) \in {<<"a","m">>, <<"p","m">>}}
    IN  IF /\ Len(p) = 3 /\ NumIn(p[1], 2, 1, 12) /\ DayField(p[2])
           /\ yi # {} /\ mp # {}
        THEN LET a == CHOOSE w \in yi : TRUE
                 b == CHOOSE w \in mp : TRUE
                 i == Num(a[2])
                 h == IF Lower(b[2]) = <<"p","m">>
                      THEN (IF i = 12 THEN 12 ELSE i + 12)
                      ELSE (IF i = 12 THEN 0 ELSE i)
             IN  MakeDatetime(Num(a[1]), Num(p[1]), Num(LStrip(p[2])),
                              h, Num(b[1]), 0, 0)
        ELSE NoDt

\* datetime.strptime(s, "%Y-%m-%d %H:%M")
StrptimeYmdHM(s) ==
    LET p == Split(s, "-")
        q == IF Len(p) = 3 THEN Split(p[3], ":") ELSE <<>>
        dh == IF Len(q) # 2 THEN {}
              ELSE {w \in WsSplit(q[1]) : DayField(w[1]) /\ NumIn(w[2], 2, 0, 23)}
    IN  IF /\ Len(p) = 3 /\ Len(p[1]) = 4 /\ IsDigits(p[1])
           /\ NumIn(p[2], 2, 1, 12) /\ dh # {} /\ NumIn(q[2], 2, 0, 59)
        THEN LET a == CHOOSE w \in dh : TRUE
             IN  MakeDatetime(Num(p[1]), Num(p[2]), Num(LStrip(a[1])),
                              Num(a[2]), Num(q[2]), 0, 0)
        ELSE NoDt

\* the characters that UTF-8 writes in two bytes
NonAscii ==
    {"","","","","","","","","","","","","","","",
     "","","","","","","","","","","","","","","",
     "",""," ","¡","¢","£","¤","¥","¦","§","¨","©","ª","«","¬",
     "­","®","¯","°","±","²","³","´","µ","¶","·","¸","¹","º","»",
     "¼","½","¾","¿","À","Á","Â","Ã","Ä","Å","Æ","Ç","È","É","Ê",
     "Ë","Ì","Í","Î","Ï","Ð","Ñ","Ò","Ó","Ô","Õ","Ö","×","Ø","Ù",
     "Ú","Û","Ü","Ý","Þ","ß","à","á","â","ã","ä","å","æ","ç","è",
     "é","ê","ë","ì","í","î","ï","ð","ñ","ò","ó","ô","õ","ö","÷",
     "ø","ù","ú","û","ü","ý","þ","ÿ"}

\* the end of a C string
NUL == "NUL"

\* the UTF-8 bytes of a text; the two bytes of a character outside ASCII are
\* written as that character twice: neither is a digit, a sign, a
\* separator or a letter of the format
RECURSIVE Utf8(_)
Utf8(s) ==
    IF s = <<>> THEN <<>>
    ELSE (IF Head(s) \in NonAscii THEN <<Head(s), Head(s)>> ELSE <<Head(s)>>)
         \o Utf8(Tail(s))

\* the byte at offset p, counted from 0; the terminator past the end
ByteAt(b, p) == IF p + 1 \in 1..Len(b) THEN b[p + 1] ELSE NUL

\* parse_digits: the number written by the n digits from p, -1 without them
ParseDigits(b, p, n) ==
    IF \A i \in 0..(n - 1) : ByteAt(b, p + i) \in Digits
    THEN Num([i \in 1..n |-> ByteAt(b, p + i - 1)])
    ELSE -1

\* _find_isoformat_datetime_separator: the length of the date; -1 for the
\* ValueError
FindIsoformatDatetimeSeparator(b) ==
    LET n == Len(b)
        run == CHOOSE idx \in 7..(IF n > 7 THEN n ELSE 7) :
                   /\ \A k \in 7..(idx - 1) : ByteAt(b, k) \in Digits
                   /\ idx = n \/ idx > n \/ ByteAt(b, idx) \notin Digits
    IN  IF n = 7 THEN 7
        ELSE IF ByteAt(b, 4) = "-"
        THEN IF ByteAt(b, 5) = "W"
             THEN IF n < 8 THEN -1
                  ELSE IF n > 8 /\ ByteAt(b, 8) = "-"
                  THEN IF n = 9 THEN -1
                       ELSE IF n > 10 /\ ByteAt(b, 10) \in Digits THEN 8
                       ELSE 10
                  ELSE 8
             ELSE 10
        ELSE IF ByteAt(b, 4) = "W"
        THEN IF run < 9 THEN run
             ELSE IF run % 2 = 0 THEN 7 ELSE 8
        ELSE 8

\* days_before_year
DaysBeforeYear(year) ==
    LET y == year - 1
    IN  y * 365 + (y \div 4) - (y \div 100) + (y \div 400)

\* days_before_month
RECURSIVE DaysBeforeMonth(_, _)
DaysBeforeMonth(y, mo) ==
    IF mo <= 1 THEN 0 ELSE DaysBeforeMonth(y, mo - 1) + DaysInMonth(y, mo - 1)

\* ymd_to_ord
YmdToOrd(y, mo, d) == DaysBeforeYear(y) + DaysBeforeMonth(y, mo) + d

\* ord_to_ymd of a day number from 1
OrdToYmd(o) ==
    LET guess == (((o - 1) * 400) \div 146097) + 1
        Month(y, r, mo) == <<y, mo, r - DaysBeforeMonth(y, mo)>>
        Day(y, r) ==
            Month(y, r, CHOOSE c \in 1..12 :
                            /\ DaysBeforeMonth(y, c) < r
                            /\ r <= DaysBeforeMonth(y, c) + DaysInMonth(y, c))
        Year(y) == Day(y, o - DaysBeforeYear(y))
    IN  Year(CHOOSE c \in (guess - 1)..(guess + 1) :
                 DaysBeforeYear(c) < o /\ o <= DaysBeforeYear(c + 1))

DateError == <<-1, -1, -1>>

\* iso_to_ymd: the day of an ISO year, week and weekday
IsoToYmd(iso_year, iso_week, iso_day) ==
    LET first == YmdToOrd(iso_year, 1, 1)
        first_weekday == (first + 6) % 7
        week1_monday == IF first_weekday > 3 THEN first - first_weekday + 7
                        ELSE first - first_weekday
        long_year == first_weekday = 3
                     \/ (first_weekday = 2 /\ IsLeap(iso_year))
    IN  IF iso_year \notin 1..9999 THEN DateError
        ELSE IF iso_week <= 0 \/ iso_week > 53 THEN DateError
        ELSE IF iso_week = 53 /\ ~long_year THEN DateError
        ELSE IF iso_day <= 0 \/ iso_day >= 8 THEN DateError
        ELSE OrdToYmd(week1_monday + (iso_week - 1) * 7 + iso_day - 1)

\* parse_isoformat_date of the first n bytes: <<year, month, day>>
ParseIsoformatDate(b, n) ==
    LET year == ParseDigits(b, 0, 4)
        uses_separator == ByteAt(b, 4) = "-"
        p == IF uses_separator THEN 5 ELSE 4
        iso_week == ParseDigits(b, p + 1, 2)
        q == p + 3
        d == IF uses_separator THEN q + 1 ELSE q
        month == ParseDigits(b, p, 2)
        m == IF uses_separator THEN p + 3 ELSE p + 2
    IN  IF year < 0 THEN DateError
        ELSE IF ByteAt(b, p) = "W"
        THEN IF iso_week < 0 THEN DateError
             ELSE IF q < n
             THEN IF uses_separator /\ ByteAt(b, q) # "-" THEN DateError
                  ELSE IF ParseDigits(b, d, 1) < 0 THEN DateError
                  ELSE IsoToYmd(year, iso_week, ParseDigits(b, d, 1))
             ELSE IsoToYmd(year, iso_week, 1)
        ELSE IF month < 0 THEN DateError
        ELSE IF uses_separator /\ ByteAt(b, p + 2) # "-" THEN DateError
        ELSE IF ParseDigits(b, m, 2) < 0 THEN DateError
        ELSE <<year, month, ParseDigits(b, m, 2)>>

TimeError == [err |-> TRUE, vals |-> <<0, 0, 0>>, us |-> 0, rest |-> FALSE]

\* the fraction of parse_hh_mm_ss_ff: at most six digits counted, further
\* digits passed over; rest tells that the string goes on after them
Fraction(b, p, pend, vals) ==
    LET len_remains == pend - p
        to_parse == IF len_remains >= 6 THEN 6 ELSE len_remains
        us == ParseDigits(b, p, to_parse)
        correction == <<100000, 10000, 1000, 100, 10>>
        after == CHOOSE j \in (p + to_parse)..(Len(b) + 1) :
                     /\ ByteAt(b, j) \notin Digits
                     /\ \A k \in (p + to_parse)..(j - 1) : ByteAt(b, k) \in Digits
    IN  IF us < 0 THEN TimeError
        ELSE [err |-> FALSE, vals |-> vals,
              us |-> IF to_parse \in 1..5 THEN us * correction[to_parse] ELSE us,
              rest |-> ByteAt(b, after) # NUL]

\* parse_hh_mm_ss_ff from offset p up to pend; i fields are read into vals
RECURSIVE ParseHhMmSsFf(_, _, _, _, _, _)
ParseHhMmSsFf(b, p, pend, i, vals, has_separator) ==
    IF i = 3 THEN Fraction(b, p, pend, vals)
    ELSE LET v == ParseDigits(b, p, 2)
             c == ByteAt(b, p + 2)
             q == p + 3
             sep == IF i = 0 THEN c = ":" ELSE has_separator
             got == [vals EXCEPT ![i + 1] = v]
         IN  IF v < 0 THEN TimeError
             ELSE IF q >= pend
             THEN [err |-> FALSE, vals |-> got, us |-> 0, rest |-> c # NUL]
             ELSE IF sep /\ c = ":"
             THEN ParseHhMmSsFf(b, q, pend, i + 1, got, sep)
             ELSE IF c \in {".", ","} THEN Fraction(b, q, pend, got)
             ELSE IF ~sep THEN ParseHhMmSsFf(b, q - 1, pend, i + 1, got, sep)
             ELSE TimeError

\* parse_isoformat_time of the bytes from p: the time, and the whole seconds
\* of the offset where one is given (its fraction is below a second)
ParseIsoformatTime(b, p) ==
    LET pend == Len(b)
        marks == {j \in p..(pend - 1) : ByteAt(b, j) \in {"Z", "+", "-"}}
        bad == [err |-> TRUE, vals |-> <<0, 0, 0>>, us |-> 0, tz |-> FALSE,
                offset |-> 0]
        \* t the time up to tzinfo_pos, z the offset after it
        Parsed(tzinfo_pos, t, z) ==
            LET time(tz, offset) == [err |-> FALSE, vals |-> t.vals, us |-> t.us,
                                     tz |-> tz, offset |-> offset]
            IN  IF t.err THEN bad
                ELSE IF tzinfo_pos = pend
                THEN (IF t.rest THEN bad ELSE time(FALSE, 0))
                ELSE IF ByteAt(b, tzinfo_pos) = "Z"
                THEN (IF ByteAt(b, tzinfo_pos + 1) # NUL THEN bad
                      ELSE time(TRUE, 0))
                ELSE IF z.err \/ z.rest THEN bad
                ELSE time(TRUE, z.vals[1] * 3600 + z.vals[2] * 60 + z.vals[3])
        Zoned(tzinfo_pos) ==
            Parsed(tzinfo_pos,
                   ParseHhMmSsFf(b, p, tzinfo_pos, 0, <<0, 0, 0>>, TRUE),
                   ParseHhMmSsFf(b, tzinfo_pos + 1, pend, 0, <<0, 0, 0>>, TRUE))
    IN  Zoned(IF marks # {} THEN CHOOSE j \in marks : \A k \in marks : j <= k
              ELSE IF pend > p THEN pend ELSE p + 1)

\* datetime.fromisoformat(s) with the UTC offset dropped, as
\* .replace(tzinfo=None) leaves it.  The offset is still read: one that is
\* malformed, or a day or more either way, is a ValueError.
FromIsoformat(s) ==
    LET Parsed(len, separator_location, date, t) ==
            IF len < 7 \/ separator_location < 0 \/ date = DateError THEN NoDt
            ELSE IF len <= separator_location
            THEN MakeDatetime(date[1], date[2], date[3], 0, 0, 0, 0)
            ELSE IF t.err THEN NoDt
            ELSE IF t.tz /\ t.offset >= 86400 THEN NoDt
            ELSE MakeDatetime(date[1], date[2], date[3],
                              t.vals[1], t.vals[2], t.vals[3], t.us)
        Separated(b, separator_location) ==
            Parsed(Len(b), separator_location,
                   ParseIsoformatDate(b, separator_location),
                   ParseIsoformatTime(b,
                       IF ByteAt(b, separator_location) \in NonAscii
                       THEN separator_location + 2 ELSE separator_location + 1))
        Bytes(b) == Separated(b, FindIsoformatDatetimeSeparator(b))
    IN  Bytes(Utf8(s))

\* a < b on datetimes
DtLess(a, b) ==
    \E i \in 1..7 : a[i] < b[i] /\ \A j \in 1..(i - 1) : a[j] = b[j]

\* n in decimal, padded with zeros to w digits
RECURSIVE Pad(_, _)
Pad(n, w) ==
    IF w = 0 THEN <<>> ELSE Pad(n \div 10, w - 1) \o <<DigitChars[(n % 10) + 1]>>

\* str(n) of a natural number
RECURSIVE Str(_)
Str(n) ==
    IF n < 10 THEN <<DigitChars[n + 1]>>
    ELSE Str(n \div 10) \o <<DigitChars[(n % 10) + 1]>>

\* dt.strftime("%Y%m%d%H%M"): the C library writes the year without padding
Strftime(dt) ==
    Str(dt[1]) \o Pad(dt[2], 2) \o Pad(dt[3], 2) \o Pad(dt[4], 2) \o Pad(dt[5], 2)

-----------------------------------------------------------------------------
(* Regular expressions of the code.  A pattern is a sequence of atoms; an  *)
(* atom is a class of characters (or its complement) repeated min..max     *)
(* times, greedily, max < 0 for no limit, or the anchor $.  Letters of a   *)
(* literal match in both cases, as under re.IGNORECASE.                    *)

Atom(cls, min, max) ==
    [cls |-> cls, neg |-> FALSE, min |-> min, max |-> max, end |-> FALSE]

EndAtom == [cls |-> {}, neg |-> FALSE, min |-> 0, max |-> 0, end |-> TRUE]

Lit(t) ==
    LET up(c) == IF \E i \in 1..26 : LowerAlpha[i] = c
                 THEN UpperAlpha[CHOOSE i \in 1..26 : LowerAlpha[i] = c]
                 ELSE c
    IN  [i \in 1..Len(t) |-> Atom({LowerChar(t[i]), up(t[i])}, 1, 1)]

\* re.match at position i: the position after the match, 0 for no match
RECURSIVE ReMatch(_, _, _), ReTry(_, _, _, _)
ReMatch(atoms, s, i) ==
    IF atoms = <<>> THEN i
    ELSE IF Head(atoms).end
    THEN IF i = Len(s) + 1 \/ (i = Len(s) /\ s[i] = "\n")
         THEN ReMatch(Tail(atoms), s, i)
         ELSE 0
    ELSE LET a == Head(atoms)
             cap == IF a.max < 0 \/ a.max > Len(s) - i + 1
                    THEN Len(s) - i + 1 ELSE a.max
             run == CHOOSE k \in 0..cap :
                      /\ \A j \in i..(i + k - 1) : (s[j] \in a.cls) # a.neg
                      /\ k < cap => (s[i + k] \in a.cls) = a.neg
         IN  ReTry(atoms, s, i, run)

\* backtracking: the longest repetition of the first atom that lets the
\* rest of the pattern match
ReTry(atoms, s, i, k) ==
    IF k < Head(atoms).min THEN 0
    ELSE LET e == ReMatch(Tail(atoms), s, i + k)
         IN  IF e # 0 THEN e ELSE ReTry(atoms, s, i, k - 1)

\* re.sub(alts[1]|alts[2]|..., repl, s) for patterns matching no empty text
RECURSIVE ReSub(_, _, _)
ReSub(alts, repl, s) ==
    IF s = <<>> THEN <<>>
    ELSE LET hit == {n \in 1..Len(alts) : ReMatch(alts[n], s, 1) > 1}
         IN  IF hit = {}
             THEN <<Head(s)>> \o ReSub(alts, repl, Tail(s))
             ELSE LET n == CHOOSE m \in hit : \A h \in hit : m <= h
                  IN  repl \o ReSub(alts, repl,
                                    SubSeq(s, ReMatch(alts[n], s, 1), Len(s)))

-----------------------------------------------------------------------------
(* Values of JSON objects and the parsers of single fields.                *)

\* what a JSON object holds under a key it does not have; None is null
NoKey == <<"<no key>">>

\* obj.get(key, default), v being what obj holds under key
Get(v, default) == IF v = NoKey THEN default ELSE v

\* x or y on texts
Or(x, y) == IF x = None \/ x = <<>> THEN y ELSE x

\* _parse_dt of the CivicClerk sources: None for no text and on ValueError
ParseDt(dt_str) ==
    IF dt_str = None \/ dt_str = <<>> THEN None
    ELSE FromIsoformat(Replace(dt_str, <<"Z">>, <<"+","0","0",":","0","0">>)).dt

\* _get_event_title of the mixin, the title expression of the spider
GetEventTitle(event) ==
    IF ~Has(event, H_Name) THEN <<>>
    ELSE IF IsDict(event[H_Name]) THEN Label(event[H_Name])
    ELSE event[H_Name].text

\* item.get("Name", "").strip() or item.get("MeetingTypeName", "").strip():
\* [err, text].  A null value has no strip (AttributeError, err); the
\* second operand is evaluated only when the first is empty.
KckpsRawTitle(item) ==
    IF Get(item.Name, <<>>) = None THEN [err |-> TRUE, text |-> None]
    ELSE IF Strip(Get(item.Name, <<>>)) # <<>>
    THEN [err |-> FALSE, text |-> Strip(Get(item.Name, <<>>))]
    ELSE IF Get(item.MeetingTypeName, <<>>) = None
    THEN [err |-> TRUE, text |-> None]
    ELSE [err |-> FALSE, text |-> Strip(Get(item.MeetingTypeName, <<>>))]

\* for pattern in patterns: title = re.sub(pattern, "", title)
RECURSIVE SubEach(_, _)
SubEach(patterns, title) ==
    IF patterns = <<>> THEN title
    ELSE SubEach(Tail(patterns), ReSub(Head(patterns), <<>>, title))

\* title.rsplit(" - ", 1)[0].strip() if " - " in title, else title
BeforeLastDash(title) ==
    LET dashes == {i \in 1..(Len(title) - 2) :
                     SubSeq(title, i, i + 2) = <<" ", "-", " ">>}
    IN  IF dashes = {} THEN title
        ELSE Strip(SubSeq(title, 1,
                          (CHOOSE i \in dashes : \A j \in dashes : j <= i) - 1))

\* KancitKckpsBoeSpider._parse_title(item): [err, title], err for the
\* AttributeError of the raw title
KckpsParseTitle(item) ==
    LET ws1 == <<Atom(Whitespace, 1, -1)>>
        ws0 == <<Atom(Whitespace, 0, -1)>>
        d12 == <<Atom(Digits, 1, 2)>>
        d2 == <<Atom(Digits, 2, 2)>>
        d4 == <<Atom(Digits, 4, 4)>>
        letters == {UpperAlpha[i] : i \in 1..26} \cup {LowerAlpha[i] : i \in 1..26}
        ampm == <<Atom({"a", "A", "p", "P"}, 1, 1), Atom({"."}, 0, 1),
                  Atom({"m", "M"}, 1, 1), Atom({"."}, 0, 1)>>
        time_patterns ==
            << << ws1 \o Lit(<<"a","t">>) \o ws1 \o d12 \o Lit(<<":">>) \o d2
                  \o ws0 \o ampm >>,
               << ws1 \o d12 \o Lit(<<":">>) \o d2 \o ws0 \o ampm >>,
               << ws1 \o d12 \o ws0 \o ampm >> >>
        months == << <<"J","a","n">>, <<"F","e","b">>, <<"M","a","r">>, <<"A","p","r">>, <<"M","a","y">>, <<"J","u","n">>,
                     <<"J","u","l">>, <<"A","u","g">>, <<"S","e","p">>, <<"O","c","t">>, <<"N","o","v">>, <<"D","e","c">> >>
        date_patterns ==
            << [n \in 1..12 |->
                   ws1 \o Lit(months[n]) \o <<Atom(letters, 0, -1)>> \o ws1 \o d12
                   \o <<Atom({","}, 0, 1)>> \o ws1 \o d4 \o <<EndAtom>>],
               << ws1 \o d12 \o Lit(<<"/">>) \o d12 \o Lit(<<"/">>) \o d4 \o <<EndAtom>> >>,
               << ws1 \o d4 \o <<EndAtom>> >>,
               << ws1 \o d12 \o Lit(<<",">>) \o ws1 \o d4 \o <<EndAtom>> >> >>
        Titled(raw) ==
            IF raw.err THEN [err |-> TRUE, title |-> None]
            ELSE [err |-> FALSE,
                  title |-> Strip(SubEach(date_patterns,
                                BeforeLastDash(SubEach(time_patterns, raw.text))))]
    IN  Titled(KckpsRawTitle(item))

\* KancitKckpsBoeSpider._parse_start(item): [err, dt].  None when
\* MeetingDateTime is left out, null or empty (if dt_str); the ValueError
\* of strptime is not caught (err)
KckpsParseStart(item) ==
    IF Get(item.MeetingDateTime, <<>>) \in {None, <<>>}
    THEN [err |-> FALSE, dt |-> None]
    ELSE StrptimeYmdHM(Get(item.MeetingDateTime, <<>>))

-----------------------------------------------------------------------------
(* The link builders.                                                      *)

K_not == <<"n","o","t">>
K_available == <<"a","v","a","i","l","a","b","l","e">>
T_Agenda == <<"A","g","e","n","d","a">>
T_Minutes == <<"M","i","n","u","t","e","s">>
T_iCalendar == <<"i","C","a","l","e","n","d","a","r">>
T_Video == <<"V","i","d","e","o">>
T_Audio == <<"A","u","d","i","o">>
T_Document == <<"D","o","c","u","m","e","n","t">>

Link(href, title) == [href |-> href, title |-> title]

\* isinstance(v, dict) and v.get("url"), v being item.get(h)
HasUrl(item, h) ==
    Has(item, h) /\ IsDict(item[h]) /\ item[h].url \notin {None, <<>>}

\* v.get("label", default) of a dict
LabelOr(v, default) == IF v.kind = "link" THEN v.text ELSE default

\* the test on the label of a video or audio link
Playable(label) ==
    /\ label # <<>>
    /\ ~Contains(Lower(label), K_not)
    /\ ~Contains(Lower(label), K_available)

\* the links appended for the agenda or the minutes
DocLink(item, h, default) ==
    IF HasUrl(item, h)
    THEN <<Link(item[h].url, LabelOr(item[h], default))>>
    ELSE <<>>

\* the links appended for the video or the audio
MediaLink(item, h, default) ==
    IF HasUrl(item, h) /\ Playable(LabelOr(item[h], default))
    THEN <<Link(item[h].url, LabelOr(item[h], default))>>
    ELSE <<>>

\* Faulty variant: "not" and "available" are looked for in the label as
\* written.
MixinParseLinksCaseSensitive(item) ==
    LET media(h, default) ==
            IF /\ HasUrl(item, h)
               /\ LabelOr(item[h], default) # <<>>
               /\ ~Contains(LabelOr(item[h], default), K_not)
               /\ ~Contains(LabelOr(item[h], default), K_available)
            THEN <<Link(item[h].url, LabelOr(item[h], default))>>
            ELSE <<>>
    IN  DocLink(item, H_Agenda, T_Agenda)
        \o DocLink(item, H_Minutes, T_Minutes)
        \o (IF HasUrl(item, H_iCalendar)
            THEN <<Link(item[H_iCalendar].url, T_iCalendar)>> ELSE <<>>)
        \o media(H_Video, T_Video)
        \o media(H_Audio, T_Audio)

\* KancitMissouricityMixin._parse_links; KancitMissouricitySpider._parse_links
\* is the same code
MixinParseLinks(item) ==
    DocLink(item, H_Agenda, T_Agenda)
    \o DocLink(item, H_Minutes, T_Minutes)
    \o (IF HasUrl(item, H_iCalendar)
        THEN <<Link(item[H_iCalendar].url, T_iCalendar)>> ELSE <<>>)
    \o MediaLink(item, H_Video, T_Video)
    \o MediaLink(item, H_Audio, T_Audio)

portal_base_url ==
    <<"h","t","t","p","s",":","/","/","w","y","c","o","k","c","k",".","p","o","r","t","a","l",".","c","i","v","i","c","c","l","e","r","k",".","c","o","m">>

\* f"{self.portal_base_url}/event/{event_id}/files/agenda/{file_id}"
FileHref(event_id, file_id) ==
    portal_base_url \o <<"/","e","v","e","n","t","/">> \o Str(event_id)
    \o <<"/","f","i","l","e","s","/","a","g","e","n","d","a","/">> \o Str(file_id)

\* the loop of _parse_links of the CivicClerk sources over publishedFiles;
\* an id or fileId of 0 stands for one that is missing
RECURSIVE CivicParseLinks(_, _)
CivicParseLinks(event_id, files) ==
    IF files = <<>> THEN <<>>
    ELSE LET f == Head(files)
         IN  (IF f.fileId = 0 \/ event_id = 0 THEN <<>>
              ELSE <<Link(FileHref(event_id, f.fileId), Or(f.type, T_Document))>>)
             \o CivicParseLinks(event_id, Tail(files))

\* the link columns of the calendar, in the order of _parse_links
LinkRoles == <<H_Agenda, H_Minutes, H_iCalendar, H_Video, H_Audio>>

LinkUrl1 == BaseDir \o <<"V","i","e","w",".","a","s","h","x","?","M","=","A">>
LinkUrl2 == BaseDir \o <<"V","i","e","w",".","a","s","h","x","?","M","=","M">>

\* what a link column may hold: nothing, a text, a link with a label, with
\* an empty label, with a placeholder label, with an empty url, without label
LinkCells ==
    { [kind |-> "absent", text |-> None, url |-> None],
      StrValue(<<"N","o","t"," ","a","v","a","i","l","a","b","l","e">>),
      LinkValue(<<"P","a","c","k","e","t">>, LinkUrl1),
      LinkValue(<<>>, LinkUrl2),
      LinkValue(<<"N","o","t"," ","A","v","a","i","l","a","b","l","e">>, LinkUrl1),
      LinkValue(<<"P","a","c","k","e","t">>, <<>>),
      UrlValue(LinkUrl2) }

\* the event holding the given cell for each link column
LinkItem(cells) ==
    [h \in {LinkRoles[i] : i \in {j \in 1..5 : cells[j].kind # "absent"}} |->
        cells[CHOOSE i \in 1..5 : LinkRoles[i] = h]]

\* publishedFiles of a CivicClerk event holds at most MaxFiles files
MaxFiles == 2

PublishedFiles ==
    { [fileId |-> 5, type |-> T_Agenda],
      [fileId |-> 5, type |-> None],
      [fileId |-> 12, type |-> <<>>],
      [fileId |-> 0, type |-> T_Minutes] }

NoCells == [i \in 1..5 |-> [kind |-> "absent", text |-> None, url |-> None]]

LinkInit ==
    /\ linkIn \in {[cells |-> c, id |-> 0, files |-> <<>>] :
                     c \in [1..5 -> LinkCells]}
                  \cup {[cells |-> NoCells, id |-> i, files |-> f] :
                          i \in {0, 7}, f \in SeqsUpTo(PublishedFiles, MaxFiles)}
    /\ linkOut = [done |-> FALSE, legistar |-> <<>>, civic |-> <<>>]

LinkIdle ==
    /\ linkIn = [cells |-> NoCells, id |-> 0, files |-> <<>>]
    /\ linkOut = [done |-> FALSE, legistar |-> <<>>, civic |-> <<>>]

\* _parse_links of the Legistar code and of the CivicClerk code on one event
ParseLinks ==
    /\ ~linkOut.done
    /\ linkOut' = [done |-> TRUE,
                   legistar |-> MixinParseLinks(LinkItem(linkIn.cells)),
                   civic |-> CivicParseLinks(linkIn.id, linkIn.files)]
    /\ UNCHANGED <<linkIn, legVars, clsVars, locVars, emitVars, placeVars, classVars,
                   poolVars>>

LinkNext == ParseLinks

-----------------------------------------------------------------------------
(* The locations of the CivicClerk sources and of the KCKPS spider.        *)

location_name == <<"U","n","i","f","i","e","d"," ","G","o","v","e","r","n","m","e","n","t"," ","o","f"," ","W","y","a","n","d","o","t","t","e"," ","C","o","u","n","t","y","/","K","a","n","s","a","s"," ","C","i","t","y">>
default_address == <<"7","0","1"," ","N"," ","7","t","h"," ","S","t","r","e","e","t",","," ","K","a","n","s","a","s"," ","C","i","t","y",","," ","K","S"," ","6","6","1","0","1">>

\* raw_event.get("eventLocation") or {}: given tells whether the event has
\* no eventLocation ("missing"), null ("null") or an object ("dict") whose
\* fields are texts, None for a field that is null or left out
NoFields ==
    [address1 |-> None, address2 |-> None, city |-> None, state |-> None,
     zipCode |-> None]

EventLocation(given, fields) ==
    [given |-> given, address1 |-> fields.address1,
     address2 |-> fields.address2, city |-> fields.city,
     state |-> fields.state, zipCode |-> fields.zipCode]

\* [part for part in parts if part]
Truthy(parts) == SelectSeq(parts, LAMBDA p : p # None /\ p # <<>>)

\* Faulty variant: the joined parts are not stripped.
CivicParseLocationUnstripped(raw) ==
    LET event_location == IF raw.given = "dict" THEN raw
                          ELSE EventLocation("dict", NoFields)
        address_parts ==
            << Or(event_location.address1, <<>>),
               Or(event_location.address2, <<>>),
               Join(<<",", " ">>,
                    Truthy(<<event_location.city, event_location.state,
                             event_location.zipCode>>)) >>
        address == Join(<<" ">>, Truthy(address_parts))
    IN  Location(location_name,
                 IF address = <<>> THEN default_address ELSE address)

\* CivicClerkMixin._parse_location and ColgoWycokckBoccSpider._parse_location
CivicParseLocation(raw) ==
    LET event_location == IF raw.given = "dict" THEN raw
                          ELSE EventLocation("dict", NoFields)
        address_parts ==
            << Or(event_location.address1, <<>>),
               Or(event_location.address2, <<>>),
               Join(<<",", " ">>,
                    Truthy(<<event_location.city, event_location.state,
                             event_location.zipCode>>)) >>
        address == Strip(Join(<<" ">>, Truthy(address_parts)))
    IN  Location(location_name,
                 IF address = <<>> THEN default_address ELSE address)

\* the eventLocation values the CivicClerk location is computed on
EventLocations ==
    {EventLocation("missing", NoFields), EventLocation("null", NoFields)}
    \cup {EventLocation("dict",
                        [address1 |-> a1, address2 |-> a2, city |-> c,
                         state |-> s, zipCode |-> z]) :
            a1 \in {None, <<>>, <<" ">>, <<"7","0","1"," ","N"," ","7","t","h"," ","S","t">>},
            a2 \in {None, <<>>, <<"S","u","i","t","e"," ","1">>},
            c \in {None, <<>>, <<" ">>, <<"K","a","n","s","a","s"," ","C","i","t","y">>},
            s \in {None, <<" ">>, <<"K","S">>},
            z \in {None, <<"6","6","1","0","1">>}}

CENTRAL_OFFICE ==
    <<"K","a","n","s","a","s"," ","C","i","t","y",","," ","K","a","n","s","a","s"," ","P","u","b","l","i","c"," ","S","c","h","o","o","l","s"," ","-"," ","C","e","n","t","r","a","l"," ","O","f","f","i","c","e"," ","a","n","d"," ","T","r","a","i","n","i","n","g"," ","C","e","n","t","e","r">>

\* LOCATION_MAP of the KCKPS spider: keyword, extra, address, name
LOCATION_MAP ==
    << [keyword |-> <<"B","o","a","r","d"," ","R","e","t","r","e","a","t">>, extra |-> None,
        address |-> <<"1","0"," ","E"," ","C","a","m","b","r","i","d","g","e"," ","C","i","r","c","l","e"," ","D","r","i","v","e"," ","#","3","0","0",","," ","K","a","n","s","a","s"," ","C","i","t","y",","," ","K","a","n","s","a","s"," ","6","6","1","0","3">>,
        name |-> <<"M","c","A","n","a","n","y"," ","V","a","n"," ","C","l","e","a","v","e"," ","&"," ","P","h","i","l","l","i","p","s"," ","L","a","w"," ","F","i","r","m">>],
       [keyword |-> <<"A","c","a","d","e","m","i","c"," ","C","o","m","m","i","t","t","e","e"," ","M","e","e","t","i","n","g">>, extra |-> None,
        address |-> <<"2","0","1","0"," ","N","."," ","5","9","t","h"," ","S","t","r","e","e","t">>, name |-> CENTRAL_OFFICE],
       [keyword |-> <<"F","i","n","a","n","c","e"," ","C","o","m","m","i","t","t","e","e"," ","M","e","e","t","i","n","g">>, extra |-> None,
        address |-> <<>>, name |-> <<"K","a","n","s","a","s"," ","C","i","t","y",","," ","K","a","n","s","a","s"," ","P","u","b","l","i","c"," ","S","c","h","o","o","l","s">>],
       [keyword |-> <<"F","a","c","i","l","i","t","i","e","s">>, extra |-> <<"C","o","m","m","i","t","t","e","e"," ","M","e","e","t","i","n","g">>,
        address |-> <<"2","0","1","0"," ","N","."," ","5","9","t","h"," ","S","t","r","e","e","t",","," ","T","h","i","r","d"," ","F","l","o","o","r"," ","E","a","s","t"," ","W","i","n","g">>,
        name |-> CENTRAL_OFFICE],
       [keyword |-> <<"B","o","u","n","d","a","r","y">>, extra |-> <<"C","o","m","m","i","t","t","e","e"," ","M","e","e","t","i","n","g">>,
        address |-> <<"2","0","1","0"," ","N","."," ","5","9","t","h"," ","S","t","r","e","e","t",","," ","T","h","i","r","d"," ","F","l","o","o","r"," ","E","a","s","t"," ","W","i","n","g">>,
        name |-> CENTRAL_OFFICE],
       [keyword |-> <<"S","p","e","c","i","a","l"," ","B","o","a","r","d"," ","M","e","e","t","i","n","g"," ","A","g","e","n","d","a">>, extra |-> None,
        address |-> <<"2","0","1","0"," ","N","."," ","5","9","t","h"," ","S","t","r","e","e","t",","," ","T","h","i","r","d"," ","F","l","o","o","r"," ","B","o","a","r","d"," ","R","o","o","m">>,
        name |-> CENTRAL_OFFICE],
       [keyword |-> <<"S","p","e","c","i","a","l">>, extra |-> None,
        address |-> <<"2","0","1","0"," ","N","."," ","5","9","t","h"," ","S","t","r","e","e","t">>, name |-> CENTRAL_OFFICE],
       [keyword |-> <<"R","e","g","u","l","a","r"," ","M","e","e","t","i","n","g"," ","A","g","e","n","d","a">>, extra |-> None,
        address |-> <<"2","0","1","0"," ","N","."," ","5","9","t","h"," ","S","t","r","e","e","t",","," ","T","h","i","r","d"," ","F","l","o","o","r"," ","B","o","a","r","d"," ","R","o","o","m">>,
        name |-> CENTRAL_OFFICE],
       [keyword |-> <<"R","e","g","u","l","a","r"," ","B","o","a","r","d"," ","M","e","e","t","i","n","g"," ","A","g","e","n","d","a">>, extra |-> None,
        address |-> <<"2","0","1","0"," ","N","."," ","5","9","t","h"," ","S","t","r","e","e","t",","," ","T","h","i","r","d"," ","F","l","o","o","r"," ","B","o","a","r","d"," ","R","o","o","m">>,
        name |-> CENTRAL_OFFICE] >>

\* keyword in meeting_title and (extra is None or extra in meeting_title)
EntryMatches(entry, meeting_title) ==
    /\ Contains(meeting_title, entry.keyword)
    /\ entry.extra = None \/ Contains(meeting_title, entry.extra)

\* item.get("MeetingLocation", ""): "" for a key left out, the value of
\* the key otherwise, None when it is null
MeetingLocationOf(item) == Get(item.MeetingLocation, <<>>)

\* the loop of _parse_location over LOCATION_MAP and the return after it
RECURSIVE ScanLocationMap(_, _, _)
ScanLocationMap(entries, meeting_title, item) ==
    IF entries = <<>> THEN Location(MeetingLocationOf(item), <<>>)
    ELSE IF EntryMatches(Head(entries), meeting_title)
         THEN Location(Head(entries).name, Head(entries).address)
         ELSE ScanLocationMap(Tail(entries), meeting_title, item)

\* KancitKckpsBoeSpider._parse_location(item): [err, location], err for
\* the AttributeError of the raw title
KckpsParseLocation(item) ==
    LET Located(raw) ==
            IF raw.err THEN [err |-> TRUE, location |-> None]
            ELSE [err |-> FALSE,
                  location |-> ScanLocationMap(LOCATION_MAP, raw.text, item)]
    IN  Located(KckpsRawTitle(item))

\* Names of KCKPS items are made of up to MaxNameParts of these fragments.
MaxNameParts == 3

NameFrags ==
    { <<"B","o","a","r","d"," ","R","e","t","r","e","a","t">>, <<"F","a","c","i","l","i","t","i","e","s">>, <<" ","C","o","m","m","i","t","t","e","e"," ","M","e","e","t","i","n","g">>,
      <<"S","p","e","c","i","a","l">>, <<" ">>, <<"F","i","n","a","n","c","e">>, <<" ","B","o","a","r","d"," ","M","e","e","t","i","n","g"," ","A","g","e","n","d","a">>,
      <<"s","p","e","c","i","a","l">> }

ItemNames == {Concat(q) : q \in SeqsUpTo(NameFrags, MaxNameParts)}

\* the items the KCKPS location is computed on: Name and MeetingTypeName a
\* text, null or left out, and so MeetingLocation
LocationItems ==
    {[Name |-> n, MeetingTypeName |-> t, MeetingLocation |-> l] :
        n \in ItemNames \cup {None, NoKey},
        t \in {<<>>, <<"B","o","u","n","d","a","r","y"," ","C","o","m","m","i","t","t","e","e"," ","M","e","e","t","i","n","g">>, None, NoKey},
        l \in {NoKey, None, <<"L","i","b","r","a","r","y">>}}

NoItem == [Name |-> <<>>, MeetingTypeName |-> <<>>, MeetingLocation |-> NoKey]

PlaceInit ==
    /\ placeIn \in {[src |-> "civic", event |-> e, item |-> NoItem] :
                      e \in EventLocations}
                   \cup {[src |-> "kckps",
                          event |-> EventLocation("missing", NoFields),
                          item |-> i] : i \in LocationItems}
    /\ placeOut = <<>>

PlaceIdle ==
    /\ placeIn = [src |-> "civic",
                  event |-> EventLocation("missing", NoFields),
                  item |-> NoItem]
    /\ placeOut = <<>>

\* _parse_location of the CivicClerk sources on one raw event
CivicLocate ==
    /\ placeIn.src = "civic"
    /\ placeOut = <<>>
    /\ placeOut' = <<CivicParseLocation(placeIn.event)>>
    /\ UNCHANGED <<placeIn, legVars, clsVars, locVars, emitVars, linkVars,
                   classVars,
                   poolVars>>

\* _parse_location of the KCKPS spider on one item: what it returns, or that
\* it raised
KckpsLocate ==
    /\ placeIn.src = "kckps"
    /\ placeOut = <<>>
    /\ placeOut' = <<KckpsParseLocation(placeIn.item)>>
    /\ UNCHANGED <<placeIn, legVars, clsVars, locVars, emitVars, linkVars,
                   classVars,
                   poolVars>>

PlaceNext ==
    \/ CivicLocate
    \/ KckpsLocate

-----------------------------------------------------------------------------
(* Status, id, start and source of a record.  The sources take them from   *)
(* CityScrapersSpider and LegistarSpider, classes that are not part of     *)
(* these sources: _get_status, _get_id, legistar_start and legistar_source *)
(* are written here as the specification describes them.                   *)

PASSED == <<"p","a","s","s","e","d">>
TENTATIVE == <<"t","e","n","t","a","t","i","v","e">>

\* Faulty variant: a meeting that starts now has not passed yet.
GetStatusStrictlyBefore(item, text, at) ==
    IF item.start = None THEN [err |-> TRUE, status |-> None]
    ELSE IF DtLess(item.start, at) THEN [err |-> FALSE, status |-> PASSED]
    ELSE [err |-> FALSE, status |-> TENTATIVE]

\* _get_status(item, text), now being at: [err, status].  PASSED when start
\* is at or before now, TENTATIVE otherwise; no text tells a cancellation.
\* An absent start cannot be compared with now (err).
GetStatus(item, text, at) ==
    IF item.start = None THEN [err |-> TRUE, status |-> None]
    ELSE IF DtLess(at, item.start) THEN [err |-> FALSE, status |-> TENTATIVE]
    ELSE [err |-> FALSE, status |-> PASSED]

\* _get_id(item) for a start that is present: the name of the source, the
\* start as %Y%m%d%H%M, x and the title in lower case, runs of other
\* characters than letters, digits and ^ turned into one underscore
GetId(name, title, start) ==
    LET alnum == {UpperAlpha[i] : i \in 1..26} \cup {LowerAlpha[i] : i \in 1..26}
                 \cup Digits \cup {"^"}
        other == [cls |-> alnum, neg |-> TRUE, min |-> 1, max |-> -1, end |-> FALSE]
        spaced == Strip(ReSub(<< <<other>> >>, <<" ">>, title))
        underscore_title ==
            Lower(ReSub(<< <<Atom(Whitespace, 1, -1)>> >>, <<"_">>, spaced))
    IN  Join(<<"/">>, <<name, Strftime(start), <<"x">>, underscore_title>>)

\* Faulty variant: a row whose time is missing or is no time is given the
\* beginning of its day as start.
LegistarStartDateAlone(data) ==
    LET given(h) == Has(data, h) /\ (IsDict(data[h]) \/ data[h].text # <<>>)
        Timed(time) ==
            StrptimeDateTime12(StrOf(data[H_MeetingDate]) \o <<" ">> \o time).dt
        midnight == <<"1","2",":","0","0"," ","A","M">>
    IN  IF ~given(H_MeetingDate) THEN None
        ELSE IF given(H_MeetingTime) /\ Timed(StrOf(data[H_MeetingTime])) # None
        THEN Timed(StrOf(data[H_MeetingTime]))
        ELSE Timed(midnight)

\* legistar_start(event): the date and time that the cells Meeting Date and
\* Meeting Time give together, month/day/year and hour:minute AM or PM;
\* None when a cell is missing or empty and when the texts are no date and
\* time
LegistarStart(data) ==
    LET given(h) == Has(data, h) /\ (IsDict(data[h]) \/ data[h].text # <<>>)
    IN  IF given(H_MeetingDate) /\ given(H_MeetingTime)
        THEN StrptimeDateTime12(StrOf(data[H_MeetingDate]) \o <<" ">>
                                \o StrOf(data[H_MeetingTime])).dt
        ELSE None

\* legistar_source(event): the detail page of the event, the url of its
\* Name link; the calendar page when Name carries no url
LegistarSource(data) ==
    IF NameUrl(data) \in {None, <<>>} THEN BaseUrl ELSE NameUrl(data)

-----------------------------------------------------------------------------
(* The record of an event, source by source.                               *)

\* Meeting(title=..., ..., source=...): the fields a source gives a record
\* before status and id; all_day is False in every source
Meeting(title, description, classification, start, end, time_notes, location, links, source) ==
    [title |-> title, description |-> description,
     classification |-> classification, start |-> start, end |-> end,
     all_day |-> FALSE, time_notes |-> time_notes, location |-> location,
     links |-> links, source |-> source]

\* meeting["status"] = self._get_status(meeting, text);
\* meeting["id"] = self._get_id(meeting); yield meeting.
\* Nothing is yielded when _get_status raises.
Finish(name, m, text, at) ==
    LET Identified(st) ==
            IF st.err THEN [out |-> "raise"]
            ELSE [out |-> "yield",
                  meeting |-> m @@ [status |-> st.status,
                                    id |-> GetId(name, m.title, m.start)]]
    IN  Identified(GetStatus(m, text, at))

\* the body of the loop of parse_legistar for an event that passed the
\* filter, start being what legistar_start gave: "skip", "raise", or
\* "yield" with the meeting
LegistarMeeting(sp, event, start, at) ==
    IF start = None THEN [out |-> "skip"]
    ELSE Finish(sp.name,
                Meeting(GetEventTitle(event), <<>>,
                        IF sp.kind = "mixin" THEN sp.classification
                        ELSE SpiderParseClassification(event),
                        start, None, <<>>,
                        IF sp.kind = "mixin"
                        THEN MixinParseLocation(event, sp.meeting_location)
                        ELSE SpiderParseLocation(event),
                        MixinParseLinks(event), LegistarSource(event)),
                IF sp.kind = "mixin" THEN LocationText(event) ELSE <<>>,
                at)

\* Faulty variant: the mixin lets the events of every agency through.
ParseLegistarEventUnfiltered(sp, event, at) ==
    LegistarMeeting(sp, event, LegistarStart(event), at)

\* the body of the loop of parse_legistar for one event; the mixin first
\* drops the events of other agencies (_is_agency_match)
ParseLegistarEvent(sp, event, at) ==
    IF sp.kind = "mixin" /\ GetEventTitle(event) # sp.agency_filter
    THEN [out |-> "skip"]
    ELSE LegistarMeeting(sp, event, LegistarStart(event), at)

\* publishedFiles of a raw event: left out ("missing"), null ("null") or a
\* list ("list") of files
Files(given, files) == [given |-> given, files |-> files]

\* _parse_links of the CivicClerk sources: [err, links], err for the
\* TypeError of the loop over a null publishedFiles
CivicLinks(raw) ==
    IF raw.publishedFiles.given = "null" THEN [err |-> TRUE, links |-> <<>>]
    ELSE [err |-> FALSE,
          links |-> CivicParseLinks(raw.id, raw.publishedFiles.files)]

\* the body of the loop of parse of the CivicClerk mixin and of the
\* CivicClerk spider for one raw event
ParseCivicEvent(sp, raw, at) ==
    IF sp.kind = "civic" /\ raw.id = 0 THEN [out |-> "skip"]
    ELSE LET title == IF sp.kind = "civic"
                      THEN Strip(Replace(Or(raw.eventName, sp.agency),
                                         <<"(", ")">>, <<>>))
                      ELSE Or(raw.eventName, <<"B","o","a","r","d"," ","o","f"," ","C","o","m","m","i","s","s","i","o","n","e","r","s">>)
         IN  IF CivicLinks(raw).err THEN [out |-> "raise"]
             ELSE Finish(sp.name,
                         Meeting(title,
                                 Or(raw.eventDescription, <<>>),
                                 IF sp.kind = "civic"
                                 THEN CivicParseClassification(title)
                                 ELSE BOARD,
                                 ParseDt(raw.startDateTime),
                                 ParseDt(raw.endDateTime),
                                 <<>>,
                                 CivicParseLocation(raw.eventLocation),
                                 CivicLinks(raw).links,
                                 portal_base_url \o <<"/","e","v","e","n","t","/">>
                                 \o (IF raw.id = 0 THEN <<"N","o","n","e">>
                                     ELSE Str(raw.id))),
                         <<>>, at)

\* KancitKckpsBoeSpider._parse_time_notes, meeting_title the raw title
KckpsParseTimeNotes(meeting_title) ==
    IF \/ Contains(meeting_title, <<"F","i","n","a","n","c","e"," ","C","o","m","m","i","t","t","e","e"," ","M","e","e","t","i","n","g">>)
       \/ Contains(meeting_title, <<"S","p","e","c","i","a","l"," ","M","e","e","t","i","n","g"," ","A","g","e","n","d","a">>)
    THEN <<"P","l","e","a","s","e"," ","c","h","e","c","k"," ","m","e","e","t","i","n","g"," ","a","t","t","a","c","h","m","e","n","t","s"," ","f","o","r"," ","a","c","c","u","r","a","t","e"," ","t","i","m","e"," ","a","n","d"," ","l","o","c","a","t","i","o","n","."," ","Y","o","u"," ","a","r","e"," ","i","n","v","i","t","e","d"," ","t","o"," ","j","o","i","n"," ","v","i","r","t","u","a","l","l","y","."," ","P","l","e","a","s","e"," ","c","h","e","c","k"," ","t","h","e"," ","a","t","t","a","c","h","m","e","n","t","s"," ","f","o","r"," ","t","h","e"," ","v","i","r","t","u","a","l"," ","l","i","n","k",".">>
    ELSE <<"P","l","e","a","s","e"," ","c","h","e","c","k"," ","m","e","e","t","i","n","g"," ","a","t","t","a","c","h","m","e","n","t","s"," ","f","o","r"," ","a","c","c","u","r","a","t","e"," ","t","i","m","e"," ","a","n","d"," ","l","o","c","a","t","i","o","n",".">>

link_url ==
    <<"h","t","t","p","s",":","/","/","k","c","k","p","s",".","c","o","m","m","u","n","i","t","y",".","h","i","g","h","b","o","n","d",".","c","o","m","/","P","o","r","t","a","l","/","M","e","e","t","i","n","g","I","n","f","o","r","m","a","t","i","o","n",".","a","s","p","x">>

start_urls ==
    <<"h","t","t","p","s",":","/","/","k","c","k","p","s",".","c","o","m","m","u","n","i","t","y",".","h","i","g","h","b","o","n","d",".","c","o","m","/","P","o","r","t","a","l","/","M","e","e","t","i","n","g","T","y","p","e","L","i","s","t",".","a","s","p","x">>

\* KancitKckpsBoeSpider._parse_links; an Id of 0 stands for one that is
\* missing or null
KckpsParseLinks(item) ==
    IF item.Id = 0 THEN <<>>
    ELSE <<Link(link_url \o <<"?","O","r","g","=","C","a","l","&","I","d","=">> \o Str(item.Id),
                <<"M","e","e","t","i","n","g"," ","D","e","t","a","i","l","s">>)>>

\* _create_meeting of the KCKPS spider for one item, start being what
\* _parse_start gave: the fields are computed in the order of the call of
\* Meeting, the title first
CreateMeeting(sp, item, start, at) ==
    LET Made(title, raw) ==
            IF title.err \/ start.err THEN [out |-> "raise"]
            ELSE Finish(sp.name,
                        Meeting(title.title, <<>>,
                                IF Contains(Lower(raw.text), K_committee)
                                THEN COMMITTEE ELSE BOARD,
                                start.dt, None,
                                KckpsParseTimeNotes(raw.text),
                                KckpsParseLocation(item).location,
                                KckpsParseLinks(item), start_urls),
                        <<>>, at)
    IN  Made(KckpsParseTitle(item), KckpsRawTitle(item))
-----------------------------------------------------------------------------
(* The sources and the raw events their pages are made of.                 *)

\* AGENCY_SUFFIX of kancit_wycokck.py
AGENCY_SUFFIX ==
    <<" ","-"," ","U","n","i","f","i","e","d"," ","G","o","v","e","r","n","m","e","n","t"," ","o","f"," ","W","y","a","n","d">>
    \o <<"o","t","t","e"," ","C","o","u","n","t","y"," ","a","n","d"," ","K","a","n","s","a","s"," ","C","i","t","y">>

\* class attributes of the spiders: two sources built on the Legistar
\* mixin, with and without a classification and a fallback location, the
\* Legistar spider, a CivicClerk source of the factory, the CivicClerk
\* spider, the KCKPS spider
Spiders ==
    [council |-> [kind |-> "mixin", name |-> <<"k","a","n","c","i","t","_","c","o","u","n","c","i","l">>,
                  agency_filter |-> T_Council, classification |-> CITY_COUNCIL,
                  meeting_location |-> Location(<<"C","i","t","y"," ","H","a","l","l">>, <<"4","1","4"," ","E"," ","1","2","t","h"," ","S","t",","," ","K","a","n","s","a","s"," ","C","i","t","y",","," ","M","O"," ","6","4","1","0","6">>)],
     plain   |-> [kind |-> "mixin", name |-> <<"k","a","n","c","i","t","_","p","l","a","i","n">>,
                  agency_filter |-> T_Council, classification |-> None,
                  meeting_location |-> NoLocation],
     city    |-> [kind |-> "spider", name |-> <<"k","a","n","c","i","t","_","m","i","s","s","o","u","r","i","c","i","t","y">>],
     board   |-> [kind |-> "civic", name |-> <<"k","a","n","c","i","t","_","b","o","a","r","d","_","c","o","m","m","i","s","s","i","o","n","e","r","s">>,
                  agency |-> <<"B","o","a","r","d"," ","o","f"," ","C","o","m","m","i","s","s","i","o","n","e","r","s">> \o AGENCY_SUFFIX],
     bocc    |-> [kind |-> "colgo", name |-> <<"c","o","l","g","o","_","w","y","c","o","k","c","k","_","b","o","c","c">>],
     kckps   |-> [kind |-> "kckps", name |-> <<"k","a","n","c","i","t","_","k","c","k","p","s","_","b","o","e">>]]

\* a raw event of the CivicClerk API; id 0 stands for no id, None for a
\* text that is null or left out
CivicEvent(id, eventName, eventDescription, startDateTime, endDateTime,
           eventLocation, publishedFiles) ==
    [id |-> id, eventName |-> eventName,
     eventDescription |-> eventDescription, startDateTime |-> startDateTime,
     endDateTime |-> endDateTime, eventLocation |-> eventLocation,
     publishedFiles |-> publishedFiles]

\* raw events of the CivicClerk API
CivicEvents ==
    [a1     |-> CivicEvent(7, <<"B","o","a","r","d">>, None, <<"2","0","2","1","-","0","1","-","0","2","T","0","9",":","0","0",":","0","0","Z">>,
                           <<"2","0","2","1","-","0","1","-","0","2","T","1","0",":","0","0",":","0","0","Z">>,
                           EventLocation("dict",
                               [address1 |-> <<"7","0","1"," ","N"," ","7","t","h"," ","S","t">>, address2 |-> None,
                                city |-> <<"K","a","n","s","a","s"," ","C","i","t","y">>, state |-> <<"K","S">>,
                                zipCode |-> <<"6","6","1","0","1">>]),
                           Files("list", <<[fileId |-> 5, type |-> T_Agenda]>>)),
     a1b    |-> CivicEvent(7, <<"B","o","a","r","d"," ","(",")">>, T_cancelled, <<"2","0","2","1","-","0","1","-","0","2","T","0","9",":","0","0",":","0","0","Z">>,
                           None, EventLocation("null", NoFields),
                           Files("missing", <<>>)),
     bad    |-> CivicEvent(8, <<"C","o","m","m","i","t","t","e","e">>, <<>>, <<"T","B","D">>, None,
                           EventLocation("missing", NoFields),
                           Files("list", <<>>)),
     cancel |-> CivicEvent(9, None, <<"C","a","n","c","e","l","l","e","d">>, None, None,
                           EventLocation("missing", NoFields),
                           Files("missing", <<>>)),
     noid   |-> CivicEvent(0, <<"B","o","a","r","d">>, <<>>, <<"2","0","2","1","-","0","7","-","0","1","T","1","8",":","3","0",":","0","0">>, <<"T","B","D">>,
                           EventLocation("missing", NoFields),
                           Files("list", <<[fileId |-> 12, type |-> None]>>)),
     blank  |-> CivicEvent(11, <<" ","(",")">>, <<>>, <<"2","0","2","1","-","0","7","-","0","1","T","1","8",":","3","0",":","0","0">>, None,
                           EventLocation("missing", NoFields),
                           Files("missing", <<>>)),
     nofiles |-> CivicEvent(12, <<"C","o","m","m","i","s","s","i","o","n">>, <<>>, <<"2","0","2","1","-","0","7","-","0","1","T","1","8",":","3","0",":","0","0">>, None,
                           EventLocation("missing", NoFields),
                           Files("null", <<>>))]

\* an item of the KCKPS meeting list; an Id of 0 stands for no Id, NoKey for
\* a key the item leaves out, None for null
KckpsItem(Id, Name, MeetingTypeName, MeetingDateTime, MeetingLocation) ==
    [Id |-> Id, Name |-> Name, MeetingTypeName |-> MeetingTypeName,
     MeetingDateTime |-> MeetingDateTime, MeetingLocation |-> MeetingLocation]

\* items of the KCKPS meeting list
KckpsItems ==
    [k1     |-> KckpsItem(1, <<"R","e","g","u","l","a","r"," ","M","e","e","t","i","n","g"," ","A","g","e","n","d","a"," ","-"," ","J","a","n"," ","5",","," ","2","0","2","1">>, <<>>,
                          <<"2","0","2","1","-","0","1","-","0","5"," ","1","7",":","0","0">>, NoKey),
     k2     |-> KckpsItem(2, <<" ">>, <<"F","i","n","a","n","c","e"," ","C","o","m","m","i","t","t","e","e"," ","M","e","e","t","i","n","g"," ","4",":","0","0"," ","p",".","m",".">>,
                          <<"2","0","2","1","-","0","7","-","0","1"," ","1","6",":","0","0">>, <<"L","i","b","r","a","r","y">>),
     bad    |-> KckpsItem(3, <<"B","o","a","r","d"," ","R","e","t","r","e","a","t">>, NoKey, <<"T","B","D">>, None),
     nodate |-> KckpsItem(4, <<"C","a","n","c","e","l","l","e","d"," ","M","e","e","t","i","n","g">>, <<>>, None, NoKey),
     empty  |-> KckpsItem(0, <<"W","o","r","k"," ","S","e","s","s","i","o","n">>, None, <<>>, <<"L","i","b","r","a","r","y">>),
     nullname |-> KckpsItem(5, None, <<"B","o","a","r","d"," ","R","e","t","r","e","a","t">>,
                            <<"2","0","2","1","-","0","1","-","0","5"," ","1","7",":","0","0">>, NoKey),
     nulltype |-> KckpsItem(6, NoKey, None, <<"2","0","2","1","-","0","7","-","0","1"," ","1","6",":","0","0">>, NoKey)]

\* rows of the Legistar calendar that the sources are run on
EmitRowIds == {"m1", "m1_again", "nolink", "notime", "badtime"}

\* a crawl run is given at most MaxResponses responses, which hold at most
\* MaxItems raw events together
MaxItems == 3
MaxResponses == 2

START_YEAR == 2020

\* datetime.now() during the crawl: before and after the later meetings
Clocks == << <<2021, 1, 2, 9, 0, 0, 0>>, <<2021, 6, 1, 0, 0, 0, 250000>> >>

\* the option texts of the year selector, by the two selectors of the code
Dropdowns ==
    { [rcb |-> <<>>, select |-> <<>>],
      [rcb |-> << <<"A","l","l"," ","Y","e","a","r","s">>, <<" ","2","0","2","1"," ">> >>, select |-> << <<"2","0","1","9">> >>],
      [rcb |-> <<>>, select |-> << <<"2","0","2","0">>, <<"L","a","s","t"," ","Y","e","a","r">> >>],
      [rcb |-> << <<"2","0","2","2">>, <<"2","0","2","0">>, <<"2","0","2","1">> >>, select |-> <<>>],
      [rcb |-> << <<"L","a","s","t"," ","Y","e","a","r">>, <<"2","0","2","1","a">> >>, select |-> <<>>],
      [rcb |-> << <<"2","0","1","9">> >>, select |-> <<>>],
      [rcb |-> << <<"2","0","2","1","\r">>, <<"\f","2","0","2","0">> >>, select |-> <<>>],
      [rcb |-> << <<"2","0","2","1">>, <<"²">> >>, select |-> << <<"2","0","2","2">> >>] }

\* the characters besides 0..9 that str.isdigit accepts and int refuses
SuperscriptDigits == {"²", "³", "¹"}

\* option.isdigit()
IsDigit(option) ==
    option # <<>>
    /\ \A i \in 1..Len(option) : option[i] \in Digits \cup SuperscriptDigits

\* the loop over the options and the return of _get_max_year_from_dropdown on
\* the texts as the loop tests them: int raises ValueError on a text that
\* isdigit accepts and that holds a superscript
MaxYearOf(texts, at) ==
    LET numeric == {i \in 1..Len(texts) : IsDigit(texts[i])}
        numeric_years == {Num(texts[i]) : i \in {j \in numeric : IsDigits(texts[j])}}
    IN  IF \E i \in numeric : ~IsDigits(texts[i]) THEN [err |-> TRUE, year |-> 0]
        ELSE IF numeric_years # {}
        THEN [err |-> FALSE,
              year |-> CHOOSE y \in numeric_years : \A z \in numeric_years : z <= y]
        ELSE [err |-> FALSE, year |-> at[1] + 1]

\* _get_max_year_from_dropdown: [err, year], err for the ValueError of int
GetMaxYearFromDropdown(options, at) ==
    LET year_options == IF options.rcb # <<>> THEN options.rcb ELSE options.select
    IN  MaxYearOf([i \in 1..Len(year_options) |-> Strip(year_options[i])], at)

\* range(lo, hi + 1) as a list
RECURSIVE Range(_, _)
Range(lo, hi) == IF lo > hi THEN <<>> ELSE <<lo>> \o Range(lo + 1, hi)

ClockSet == {Clocks[i] : i \in 1..Len(Clocks)}

\* The body of the loop of the callback of source sp for one raw event,
\* datetime.now() being at: "skip", "raise", or "yield" with the meeting.
\* parse_legistar, parse of the CivicClerk sources, parse of the KCKPS
\* spider
Body(sp, raw, at) ==
    IF sp.kind \in {"mixin", "spider"} THEN ParseLegistarEvent(sp, raw, at)
    ELSE IF sp.kind \in {"civic", "colgo"} THEN ParseCivicEvent(sp, raw, at)
    ELSE CreateMeeting(sp, raw, KckpsParseStart(raw), at)

\* The loop of a callback over the events of a page, in order: for each
\* event what the body does with it and the event itself as raw.
RECURSIVE Loop(_, _, _)
Loop(sp, events, at) ==
    IF events = <<>> THEN <<>>
    ELSE <<[raw |-> Head(events)] @@ Body(sp, Head(events), at)>>
         \o Loop(sp, Tail(events), at)

\* the raw events of the ids of an API page or meeting list
RECURSIVE Lookup(_, _)
Lookup(catalogue, ids) ==
    IF ids = <<>> THEN <<>>
    ELSE <<catalogue[Head(ids)]>> \o Lookup(catalogue, Tail(ids))

-----------------------------------------------------------------------------
(* The crawl of one source.  Every callback is a generator function: the   *)
(* call made when a response arrives builds the generator and runs none of *)
(* its code; the engine then resumes it for one yielded value at a time    *)
(* and may resume another generator in between.                            *)

\* A generator of a callback cb, not yet resumed.  src tells where the loop
\* of the callback takes its events from ("legistar": _parse_legistar_events
\* on page; "civic", "kckps": the raw events ids; "none": no loop), follow
\* what it yields after the loop ("dropdown": the years START_YEAR..max year
\* of options; "around": last, this and next year; "next_link": the next
\* page when next_link; "none").  Once resumed, todo holds the loop bodies
\* not yet run and tail the requests not yet yielded; yielded, skipped and
\* sent tell what it did so far.
Generator(cb, src, follow, page, ids, options, next_link) ==
    [cb |-> cb, src |-> src, follow |-> follow, page |-> page, ids |-> ids,
     options |-> options, next_link |-> next_link,
     started |-> FALSE, todo |-> <<>>, tail |-> <<>>,
     yielded |-> 0, skipped |-> <<>>, sent |-> 0]

YearRequests(years) == [i \in 1..Len(years) |-> [cb |-> "page", year |-> years[i]]]

\* What the first resumption runs before the loop: the events of the page
\* with the keys seen after them, the maximum year of the dropdown; raised
\* for the KeyError of a table header and the ValueError of a year option.
Start(sp, f, seen, at) ==
    LET BeforeLoop(r, max_year) ==
            [raised |-> r.raised \/ max_year.err,
             seen |-> r.seen,
             todo |-> Loop(sp,
                           IF f.src = "legistar" THEN r.events
                           ELSE IF f.src = "civic" THEN Lookup(CivicEvents, f.ids)
                           ELSE IF f.src = "kckps" THEN Lookup(KckpsItems, f.ids)
                           ELSE <<>>,
                           at),
             tail |-> IF f.follow = "dropdown"
                      THEN YearRequests(Range(START_YEAR, max_year.year))
                      ELSE IF f.follow = "around"
                      THEN YearRequests(Range(at[1] - 1, at[1] + 1))
                      ELSE IF f.follow = "next_link" /\ f.next_link
                      THEN <<[cb |-> "parse", year |-> 0]>>
                      ELSE <<>>]
    IN  BeforeLoop(IF f.src = "legistar" THEN ParseEvents(sp.kind, f.page, seen)
                   ELSE [raised |-> FALSE, seen |-> seen, events |-> <<>>],
                   IF f.follow = "dropdown"
                   THEN GetMaxYearFromDropdown(f.options, at)
                   ELSE [err |-> FALSE, year |-> 0])

\* the events of a stretch of the loop
RECURSIVE Raws(_)
Raws(todo) == IF todo = <<>> THEN <<>> ELSE <<Head(todo).raw>> \o Raws(Tail(todo))

\* One resumption of generator f0, seen being self._scraped_urls: the code
\* runs up to the next yield ("yield" a meeting made from raw, "request"),
\* to the end of the function ("end") or to an exception ("raise"; cause
\* holds the event on which it is raised in the loop, lost counts the events
\* after it that would have been yielded).  Events the loop passes over are added
\* to skipped.
ResumeGenerator(sp, f0, seen, at) ==
    LET \* the frame f of the generator runs on from the first event of todo
        \* that is not passed over, at position stop
        Runs(st, f, stop) ==
            LET rest == SubSeq(f.todo, stop + 1, Len(f.todo))
                g == [f EXCEPT !.todo = rest,
                               !.skipped = @ \o Raws(SubSeq(f.todo, 1, stop - 1))]
                base == [out |-> "end", frame |-> g,
                         seen |-> IF f0.started THEN seen ELSE st.seen,
                         meeting |-> None, raw |-> None, cause |-> {},
                         lost |-> 0, request |-> [cb |-> "none", year |-> 0]]
            IN  IF ~f0.started /\ st.raised
                THEN [base EXCEPT !.out = "raise",
                                  !.frame = [f EXCEPT !.todo = <<>>]]
                ELSE IF stop <= Len(f.todo)
                THEN IF f.todo[stop].out = "raise"
                     THEN [base EXCEPT
                             !.out = "raise", !.cause = {f.todo[stop].raw},
                             !.lost = Cardinality({i \in 1..Len(rest) :
                                                     rest[i].out = "yield"})]
                     ELSE [base EXCEPT !.out = "yield",
                                       !.frame = [g EXCEPT !.yielded = @ + 1],
                                       !.meeting = f.todo[stop].meeting,
                                       !.raw = f.todo[stop].raw]
                ELSE IF f.tail # <<>>
                THEN [base EXCEPT
                        !.out = "request",
                        !.frame = [g EXCEPT !.tail = Tail(@), !.sent = @ + 1],
                        !.request = Head(f.tail)]
                ELSE base
        Frame(st, f) ==
            LET live == {i \in 1..Len(f.todo) : f.todo[i].out # "skip"}
            IN  Runs(st, f, IF live = {} THEN Len(f.todo) + 1
                            ELSE CHOOSE i \in live : \A j \in live : i <= j)
        Started(st) ==
            Frame(st, IF f0.started THEN f0
                      ELSE [f0 EXCEPT !.started = TRUE, !.todo = st.todo,
                                      !.tail = st.tail])
    IN  Started(Start(sp, f0, seen, at))

\* lastRun before any resumption
NoRun ==
    [cb |-> "none", raised |-> FALSE, done |-> FALSE, cause |-> {},
     yielded |-> 0, skipped |-> <<>>, lost |-> 0, next_link |-> FALSE,
     sent |-> 0]

\* requests of start_requests: the calendar page, the past and upcoming
\* queries of CivicClerk, the meeting list of KCKPS
EmitInit ==
    /\ spider \in DOMAIN Spiders
    /\ clock \in {Clocks[i] : i \in 1..Len(Clocks)}
    /\ pending = [parse |-> IF Spiders[spider].kind \in {"civic", "colgo"}
                            THEN 2 ELSE 1,
                  page |-> 0]
    /\ active = <<>>
    /\ requested = <<>>
    /\ handled = 0
    /\ fed = 0
    /\ eseen = {}
    /\ emitted = <<>>
    /\ origin = <<>>
    /\ lastRun = NoRun
    /\ dropdown = <<>>

EmitIdle ==
    /\ spider = "city"
    /\ clock = Clocks[1]
    /\ pending = [parse |-> 0, page |-> 0]
    /\ active = <<>>
    /\ requested = <<>>
    /\ handled = 0
    /\ fed = 0
    /\ eseen = {}
    /\ emitted = <<>>
    /\ origin = <<>>
    /\ lastRun = NoRun
    /\ dropdown = <<>>

\* The engine resumes generator k of those under way: a meeting it yields
\* is emitted, a request it yields is scheduled, and when it ends or raises
\* it is dropped with what it had not reached.  lastRun tells how the
\* resumed generator stands.
Resume(k) ==
    /\ k \in 1..Len(active)
    /\ \E r \in {ResumeGenerator(Spiders[spider], active[k], eseen, clock)} :
           /\ active' = IF r.out \in {"raise", "end"}
                        THEN SubSeq(active, 1, k - 1)
                             \o SubSeq(active, k + 1, Len(active))
                        ELSE [active EXCEPT ![k] = r.frame]
           /\ eseen' = r.seen
           /\ dropdown' = IF ~active[k].started /\ active[k].follow = "dropdown"
                          THEN <<active[k].options>> ELSE dropdown
           /\ emitted' = IF r.out = "yield" THEN Append(emitted, r.meeting)
                         ELSE emitted
           /\ origin' = IF r.out = "yield" THEN Append(origin, r.raw) ELSE origin
           /\ requested' = IF r.out = "request" /\ r.request.cb = "page"
                           THEN Append(requested, r.request.year)
                           ELSE requested
           /\ pending' = IF r.out = "request"
                         THEN [pending EXCEPT ![r.request.cb] = @ + 1]
                         ELSE pending
           /\ lastRun' = [cb |-> r.frame.cb,
                          raised |-> r.out = "raise",
                          done |-> r.out = "end",
                          cause |-> r.cause,
                          yielded |-> r.frame.yielded,
                          skipped |-> r.frame.skipped,
                          lost |-> r.lost,
                          next_link |-> r.frame.next_link,
                          sent |-> r.frame.sent]
    /\ UNCHANGED <<spider, clock, handled, fed, legVars, clsVars, locVars, linkVars,
                   placeVars, classVars, poolVars>>

\* A response holding n raw events arrives for a request of callback cb:
\* the callback is called, which gives the generator f.
Answer(cb, n, f) ==
    /\ pending[cb] > 0
    /\ handled < MaxResponses
    /\ handled' = handled + 1
    /\ fed' = fed + n
    /\ pending' = [pending EXCEPT ![cb] = @ - 1]
    /\ active' = Append(active, f)
    /\ UNCHANGED <<spider, clock, requested, eseen, emitted, origin, lastRun,
                   dropdown, legVars, clsVars, locVars, linkVars, placeVars,
                   classVars, poolVars>>

\* Faulty variant: parse also hands the calendar page, here with the row
\* m1, to _parse_legistar_events_page, as the parse of the spider does.
MixinParseEmittingFirstPage(options) ==
    /\ Spiders[spider].kind = "mixin"
    /\ Answer("parse", 1,
              Generator("parse", "legistar", "dropdown",
                        <<Table("gridCalendar", "std", <<"m1">>)>>, <<>>,
                        options, FALSE))

\* parse of the mixin on the calendar page: no event is taken from it, the
\* years START_YEAR..max year are requested
MixinParse(options) ==
    /\ Spiders[spider].kind = "mixin"
    /\ Answer("parse", 0,
              Generator("parse", "none", "dropdown", <<>>, <<>>, options, FALSE))

\* parse of the spider on the calendar page: the page goes through
\* _parse_legistar_events_page, then last, this and next year are requested
SpiderParse(table) ==
    /\ Spiders[spider].kind = "spider"
    /\ Answer("parse", Len(table.rows),
              Generator("parse", "legistar", "around", <<table>>, <<>>, <<>>,
                        FALSE))

\* _parse_legistar_events_page on the answer to a year request
LegistarEventsPage(table) ==
    /\ Spiders[spider].kind \in {"mixin", "spider"}
    /\ Answer("page", Len(table.rows),
              Generator("page", "legistar", "none", <<table>>, <<>>, <<>>, FALSE))

\* parse of the CivicClerk sources on one API page; next_link tells
\* whether the page carries @odata.nextLink
CivicParse(ids, next_link) ==
    /\ Spiders[spider].kind \in {"civic", "colgo"}
    /\ Answer("parse", Len(ids),
              Generator("parse", "civic", "next_link", <<>>, ids, <<>>,
                        next_link))

\* parse of the KCKPS spider on the meeting list
KckpsParse(ids) ==
    /\ Spiders[spider].kind = "kckps"
    /\ Answer("parse", Len(ids),
              Generator("parse", "kckps", "none", <<>>, ids, <<>>, FALSE))

\* the calendar tables given to the Legistar sources: of at most n rows
\* under the std layout, or one whose header row raises
EmitTables(n) ==
    {Table("gridCalendar", "std", rows) : rows \in SeqsUpTo(EmitRowIds, n)}
    \cup (IF n >= 1 THEN {Table("gridCalendar", "noval", <<"m1">>)} ELSE {})

EmitNext ==
    \/ \E d \in Dropdowns : MixinParse(d)
    \/ \E table \in EmitTables(MaxItems - fed) : SpiderParse(table)
    \/ \E table \in EmitTables(MaxItems - fed) : LegistarEventsPage(table)
    \/ \E ids \in SeqsUpTo(DOMAIN CivicEvents, MaxItems - fed), next_link \in BOOLEAN :
          CivicParse(ids, next_link)
    \/ \E ids \in SeqsUpTo(DOMAIN KckpsItems, MaxItems - fed) : KckpsParse(ids)
    \/ \E k \in 1..Len(active) : Resume(k)


-----------------------------------------------------------------------------
(* The spider classes.  The body of a class statement, or the attrs given  *)
(* to type(), is a dct: it gives each setting a value or None, or leaves   *)
(* it out (NoAttr).  A value is kept as a one-element tuple.               *)

NoAttr == <<"<absent>">>

Settings == {"name", "agency", "category_ids", "agency_filter"}

\* CivicClerkMixin._required_vars
CivicRequired == <<"name", "agency", "category_ids">>

\* required_static_vars of KancitMissouricityMixinMeta.__init__
LegistarRequired == <<"agency", "name", "agency_filter">>

\* the two mixins as their class bodies leave them
Mixins ==
    [CivicClerkMixin |->
         [family |-> "civic", base |-> "CityScrapersSpider",
          dct |-> [name |-> None, agency |-> None, category_ids |-> None,
                   agency_filter |-> NoAttr],
          attrs |-> [name |-> None, agency |-> None, category_ids |-> None,
                     agency_filter |-> NoAttr],
          missing |-> <<>>],
     KancitMissouricityMixin |->
         [family |-> "legistar", base |-> "LegistarSpider",
          dct |-> [name |-> None, agency |-> None, category_ids |-> NoAttr,
                   agency_filter |-> None],
          attrs |-> [name |-> None, agency |-> None, category_ids |-> NoAttr,
                     agency_filter |-> None],
          missing |-> <<>>]]

\* spider_configs of kancit_wycokck.py
spider_configs ==
    << [class_name |-> "KancitBoardCommissionersSpider",
        name |-> <<"kancit_board_commissioners">>,
        agency |-> <<"Board of Commissioners - Unified Government of Wyandotte County and Kansas City">>,
        category_ids |-> <<"31, 33, 35, 36, 37">>],
       [class_name |-> "KancitZoningPlanningSpider",
        name |-> <<"kancit_zoning_planning">>,
        agency |-> <<"Zoning and Planning - Unified Government of Wyandotte County and Kansas City">>,
        category_ids |-> <<"32">>],
       [class_name |-> "KancitNeighborhoodDevSpider",
        name |-> <<"kancit_neighborhood_dev">>,
        agency |-> <<"Neighborhood & Community Development Standing Committee - Unified Government of Wyandotte County and Kansas City">>,
        category_ids |-> <<"27">>],
       [class_name |-> "KancitEconomicDevSpider",
        name |-> <<"kancit_economic_dev">>,
        agency |-> <<"Economic Development & Finance Standing Committee - Unified Government of Wyandotte County and Kansas City">>,
        category_ids |-> <<"28">>],
       [class_name |-> "KancitPublicWorksSpider",
        name |-> <<"kancit_public_works">>,
        agency |-> <<"Public Works & Safety Standing Committee - Unified Government of Wyandotte County and Kansas City">>,
        category_ids |-> <<"29">>],
       [class_name |-> "KancitAdminHumanServicesSpider",
        name |-> <<"kancit_admin_human_services">>,
        agency |-> <<"Administration & Human Services Standing Committee - Unified Government of Wyandotte County and Kansas City">>,
        category_ids |-> <<"30">>],
       [class_name |-> "KancitTaskForceSpider",
        name |-> <<"kancit_task_force">>,
        agency |-> <<"Committee/Task Force - Unified Government of Wyandotte County and Kansas City">>,
        category_ids |-> <<"34">>] >>

\* names of the classes defined besides, and the bodies they are given
ClassNames == {"SpiderA", "SpiderB"}

Dcts(family) ==
    IF family = "civic"
    THEN [name : {NoAttr, None, <<"a">>}, agency : {NoAttr, None, <<"A">>},
          category_ids : {NoAttr, None, <<"1">>}, agency_filter : {NoAttr}]
    ELSE [name : {NoAttr, None, <<"a">>}, agency : {NoAttr, None, <<"A">>},
          category_ids : {NoAttr}, agency_filter : {NoAttr, None, <<"A">>}]

\* getattr(cls, var, None)
GetAttr(cls, var) == IF cls.attrs[var] = NoAttr THEN None ELSE cls.attrs[var]

\* CivicClerkMixin.__init_subclass__: the required settings whose value, own
\* or inherited, is None; NotImplementedError is raised unless there is none
InitSubclass(cls) ==
    SelectSeq(CivicRequired, LAMBDA var : GetAttr(cls, var) = None)

\* KancitMissouricityMixinMeta.__init__: the required settings that the
\* body of the class does not hold; NotImplementedError is raised unless
\* there is none
MetaInit(dct) ==
    SelectSeq(LegistarRequired, LAMBDA var : dct[var] = NoAttr)

\* the class statement of a class of the given base and body: the
\* attributes are those of the body, else those of the base; missing holds
\* the settings that NotImplementedError names, and the class exists when
\* it is empty
NewClass(base, dct, bases) ==
    LET attrs == [s \in Settings |->
                     IF dct[s] # NoAttr THEN dct[s] ELSE bases[base].attrs[s]]
    IN  [family |-> bases[base].family,
         base |-> base,
         dct |-> dct,
         attrs |-> attrs,
         missing |-> IF bases[base].family = "civic"
                     THEN InitSubclass([attrs |-> attrs])
                     ELSE MetaInit(dct)]

\* the class c exists: its class statement did not raise
Created(c) == c \in DOMAIN classes /\ classes[c].missing = <<>>

\* class_name in globals(): a name is bound to a class once its creation
\* went through; globals holds every class statement run, those that
\* raised too
Bound(class_name, globals) ==
    class_name \in DOMAIN globals /\ globals[class_name].missing = <<>>

\* create_spiders(): type(class_name, (CivicClerkMixin,), attrs) for every
\* config whose class_name is not in globals().  When type() raises the
\* name is not bound and the loop is over: the configs after it are not
\* reached.
RECURSIVE CreateSpidersFrom(_, _)
CreateSpidersFrom(configs, globals) ==
    IF configs = <<>> THEN globals
    ELSE IF Bound(Head(configs).class_name, globals)
    THEN CreateSpidersFrom(Tail(configs), globals)
    ELSE LET spider_class ==
                 NewClass("CivicClerkMixin",
                          [name |-> Head(configs).name,
                           agency |-> Head(configs).agency,
                           category_ids |-> Head(configs).category_ids,
                           agency_filter |-> NoAttr],
                          globals)
             attempted == (Head(configs).class_name :> spider_class) @@ globals
         IN  IF spider_class.missing # <<>> THEN attempted
             ELSE CreateSpidersFrom(Tail(configs), attempted)

ClassInit == classes = Mixins

ClassIdle == classes = Mixins

\* kancit_wycokck.py is loaded
CreateSpiders ==
    /\ classes' = CreateSpidersFrom(spider_configs, classes)
    /\ UNCHANGED <<legVars, clsVars, locVars, emitVars, linkVars, placeVars,
                   poolVars>>

\* a class statement, class cname(base) with the body dct
ClassStatement(cname, base, dct) ==
    /\ cname \notin DOMAIN classes
    /\ Created(base)
    /\ classes' = (cname :> NewClass(base, dct, classes)) @@ classes
    /\ UNCHANGED <<legVars, clsVars, locVars, emitVars, linkVars, placeVars,
                   poolVars>>

ClassNext ==
    \/ CreateSpiders
    \/ \E cname \in ClassNames, base \in DOMAIN classes :
          \E dct \in Dcts(classes[base].family) : ClassStatement(cname, base, dct)

-----------------------------------------------------------------------------
(* run_all_spiders: every listed spider is crawled by a worker of a thread *)
(* pool, the main thread collects the results as they complete.  Spiders   *)
(* are numbered 1..nspiders.  An output file is absent, unreadable as a    *)
(* JSON value with a length ("invalid"), or a JSON list of n items.        *)
(* scrapy crawl runs in the directory of the script and writes to          *)
(* output_file from there; run_spider opens and unlinks output_file from   *)
(* the working directory of the caller.  With an absolute --output-dir, or *)
(* when the caller stands in the directory of the script, both are one     *)
(* path (same_path); otherwise they are two files.                         *)

MaxSpiders == 2
MaxWorkers == 2
MaxOutputItems == 2

NoFile == [kind |-> "absent", n |-> 0]
InvalidFile == [kind |-> "invalid", n |-> 0]
ListFile(n) == [kind |-> "list", n |-> n]

\* what scrapy crawl -O may leave at the output path when it exits
CrawlFiles == {NoFile, InvalidFile} \cup {ListFile(n) : n \in 0..MaxOutputItems}

\* what an earlier run may have left in the output directory, which main
\* does not clear
StaleFiles == {NoFile, InvalidFile, ListFile(1)}

\* the exit codes of scrapy crawl: 0 and a failure
ReturnCodes == {0, 1}

\* what a future holds once its call is over: the item count run_spider
\* returned, or the exception it raised
Returned(items) == [raised |-> FALSE, items |-> items]
Raises == [raised |-> TRUE, items |-> 0]

\* run_spider from subprocess.run on: what the call gives and what it
\* leaves at output_file, given the exit code of the crawl, the file found
\* at output_file and whether what the crawl wrote to stdout and stderr
\* decodes in the encoding of the locale.  When it does not,
\* subprocess.run(text=True) raises UnicodeDecodeError, which run_spider
\* does not catch: the file stays as it was.
RunSpider(returncode, file, decodes) ==
    IF ~decodes THEN [future |-> Raises, file |-> file]
    ELSE IF returncode = 0
    THEN IF file.kind = "list"
         THEN IF file.n = 0 THEN [future |-> Returned(0), file |-> NoFile]
              ELSE [future |-> Returned(file.n), file |-> file]
         ELSE [future |-> Returned(0), file |-> file]
    ELSE [future |-> Returned(-1), file |-> NoFile]

\* the mark that starts the line printed for a result: U+2713 for a spider
\* with items, U+25CB for one without, U+2717 for a failed one
Mark(items) ==
    IF items > 0 THEN "check" ELSE IF items = 0 THEN "circle" ELSE "cross"

\* the marks an encoding of stdout may have: all of them (utf-8), none
\* (ascii, latin-1, cp1252), the circle alone (gbk, shift_jis, euc_kr,
\* big5), the check and the circle (shift_jis_2004, euc_jis_2004)
StdoutEncodings ==
    {{"check", "circle", "cross"}, {}, {"circle"}, {"check", "circle"}}

\* the counters of the as_completed loop of main after one result
Tally(counts, items) ==
    IF items > 0
    THEN [counts EXCEPT !.success = @ + 1, !.total_items = @ + items]
    ELSE IF items = 0 THEN [counts EXCEPT !.empty = @ + 1]
    ELSE [counts EXCEPT !.failed = @ + 1]

\* main up to the submission of every spider to the pool.  The output
\* directory is used as it is found (mkdir(exist_ok=True)): outputs holds
\* what stands at the path the crawl of each spider writes to, elsewhere
\* what stands at output_file as run_spider resolves it when that is
\* another path.  stdout_encodes holds the marks of the loop that the
\* encoding of stdout has.
PoolInit ==
    /\ nspiders \in 0..MaxSpiders
    /\ parallel \in 1..MaxWorkers
    /\ same_path \in BOOLEAN
    /\ stdout_encodes \in StdoutEncodings
    /\ waiting = [i \in 1..nspiders |-> i]
    /\ running = {}
    /\ outputs \in [1..nspiders -> StaleFiles]
    /\ elsewhere \in [1..nspiders -> IF same_path THEN {NoFile} ELSE StaleFiles]
    /\ futures = [i \in 1..nspiders |-> <<>>]
    /\ runs = [i \in 1..nspiders |-> 0]
    /\ collected = {}
    /\ results = [success |-> 0, empty |-> 0, failed |-> 0, total_items |-> 0]
    /\ main = "loop"

PoolIdle ==
    /\ nspiders = 0
    /\ parallel = 1
    /\ same_path = TRUE
    /\ stdout_encodes = {"check", "circle", "cross"}
    /\ waiting = <<>>
    /\ running = {}
    /\ outputs = <<>>
    /\ elsewhere = <<>>
    /\ futures = <<>>
    /\ runs = <<>>
    /\ collected = {}
    /\ results = [success |-> 0, empty |-> 0, failed |-> 0, total_items |-> 0]
    /\ main = "loop"

\* a free worker of the pool takes the next submitted call of run_spider and
\* starts the crawl.  The pool goes on after the main thread has raised: the
\* with statement leaves through shutdown(wait=True), which cancels nothing.
WorkerStart ==
    /\ waiting # <<>>
    /\ Cardinality(running) < parallel
    /\ running' = running \cup {Head(waiting)}
    /\ waiting' = Tail(waiting)
    /\ runs' = [runs EXCEPT ![Head(waiting)] = @ + 1]
    /\ UNCHANGED <<nspiders, parallel, same_path, stdout_encodes, outputs,
                   elsewhere, futures, collected, results, main,
                   legVars, clsVars, locVars, emitVars, linkVars, placeVars,
                   classVars>>

\* the crawl of spider s exits with returncode, leaving file at the path it
\* writes to; run_spider reads output_file, removes it where the code does,
\* and returns, or raises when the output of the crawl does not decode
WorkerReturn(s, returncode, file, decodes) ==
    /\ s \in running
    /\ running' = running \ {s}
    /\ \E r \in {RunSpider(returncode,
                           IF same_path THEN file ELSE elsewhere[s],
                           decodes)} :
          /\ outputs' = [outputs EXCEPT ![s] = IF same_path THEN r.file ELSE file]
          /\ elsewhere' = IF same_path THEN elsewhere
                          ELSE [elsewhere EXCEPT ![s] = r.file]
          /\ futures' = [futures EXCEPT ![s] = <<r.future>>]
    /\ UNCHANGED <<nspiders, parallel, same_path, stdout_encodes, waiting, runs,
                   collected, results, main,
                   legVars, clsVars, locVars, emitVars, linkVars, placeVars,
                   classVars>>

\* as_completed hands the main thread a completed future: future.result()
\* gives the result, the main thread updates the counters and prints the
\* line of the spider, or future.result() raises the exception of
\* run_spider.  Each line starts with the mark of its branch: when the
\* encoding of stdout does not have that mark, print raises
\* UnicodeEncodeError after the counters were updated.  Either exception
\* ends the loop and main without the summary.
Collect(s) ==
    /\ main = "loop"
    /\ s \in 1..nspiders
    /\ s \notin collected
    /\ futures[s] # <<>>
    /\ IF futures[s][1].raised
       THEN /\ main' = "raised"
            /\ UNCHANGED <<collected, results>>
       ELSE /\ collected' = collected \cup {s}
            /\ results' = Tally(results, futures[s][1].items)
            /\ main' = IF Mark(futures[s][1].items) \in stdout_encodes
                       THEN main ELSE "raised"
    /\ UNCHANGED <<nspiders, parallel, same_path, stdout_encodes, waiting,
                   running, outputs, elsewhere, futures, runs,
                   legVars, clsVars, locVars, emitVars, linkVars, placeVars,
                   classVars>>

\* every future has been handled: the loop and the with statement end and
\* main prints the summary
Summary ==
    /\ main = "loop"
    /\ collected = 1..nspiders
    /\ main' = "summary"
    /\ UNCHANGED <<nspiders, parallel, same_path, stdout_encodes, waiting,
                   running, outputs, elsewhere, futures, runs,
                   collected, results, legVars, clsVars, locVars, emitVars,
                   linkVars, placeVars, classVars>>

PoolNext ==
    \/ WorkerStart
    \/ \E s \in 1..nspiders, returncode \in ReturnCodes, file \in CrawlFiles,
          decodes \in BOOLEAN :
          WorkerReturn(s, returncode, file, decodes)
    \/ \E s \in 1..nspiders : Collect(s)
    \/ Summary

-----------------------------------------------------------------------------
(* Specifications: each runs one part of the program, the rest stays idle. *)

\* a crawl run of a Legistar table source
Init == LegInit /\ ClsIdle /\ LocIdle /\ EmitIdle /\ LinkIdle /\ PlaceIdle /\ ClassIdle /\ PoolIdle

Spec == Init /\ [][LegNext]_vars

\* the title classifier applied to one title
InitClassifier ==
    ClsInit /\ LegIdle /\ LocIdle /\ EmitIdle /\ LinkIdle /\ PlaceIdle /\ ClassIdle /\ PoolIdle

SpecClassifier == InitClassifier /\ [][ClsNext]_vars

\* the location normalizers applied to one event
InitLocation ==
    LocInit /\ LegIdle /\ ClsIdle /\ EmitIdle /\ LinkIdle /\ PlaceIdle /\ ClassIdle /\ PoolIdle

SpecLocation == InitLocation /\ [][LocNext]_vars

\* the crawl of one source, from its start requests to the items it yields
InitEmit == EmitInit /\ LegIdle /\ ClsIdle /\ LocIdle /\ LinkIdle /\ PlaceIdle /\ ClassIdle /\ PoolIdle

SpecEmit == InitEmit /\ [][EmitNext]_vars

\* the spider classes being defined
InitClass ==
    ClassInit /\ LegIdle /\ ClsIdle /\ LocIdle /\ EmitIdle /\ LinkIdle /\ PlaceIdle /\ PoolIdle

SpecClass == InitClass /\ [][ClassNext]_vars

\* the link builders applied to one event
InitLinks ==
    LinkInit /\ LegIdle /\ ClsIdle /\ LocIdle /\ EmitIdle /\ PlaceIdle /\ ClassIdle /\ PoolIdle

SpecLinks == InitLinks /\ [][LinkNext]_vars

\* the locations of the CivicClerk sources and of the KCKPS spider
InitPlace ==
    PlaceInit /\ LegIdle /\ ClsIdle /\ LocIdle /\ EmitIdle /\ LinkIdle /\ ClassIdle /\ PoolIdle

SpecPlace == InitPlace /\ [][PlaceNext]_vars

\* run_all_spiders: main from the submission of the spiders to the end of
\* the pool
InitPool ==
    PoolInit /\ LegIdle /\ ClsIdle /\ LocIdle /\ EmitIdle /\ LinkIdle /\ PlaceIdle /\ ClassIdle

SpecPool == InitPool /\ [][PoolNext]_vars

\* two crawl runs whose page parses interleave


-----------------------------------------------------------------------------
(* Claims on the Legistar crawl run.                                       *)

\* the composite key of an event: (Name link url, date text, time text)
Triple(data) ==
    <<NameUrl(data), KeyPart(data, H_MeetingDate), KeyPart(data, H_MeetingTime)>>

\* C1: over the whole run no two returned events have the same composite
\* key, and the set of seen keys only grows: it holds the keys it held
\* before the last page and the key of every event returned so far.
C1_NoDuplicateReturned ==
    /\ \A i, j \in 1..Len(returned) :
          i # j => /\ Triple(returned[i]) # Triple(returned[j])
                   /\ UniqueKey(returned[i]) # UniqueKey(returned[j])
    /\ lastSeen \subseteq scraped_urls
    /\ \A i \in 1..Len(returned) : UniqueKey(returned[i]) \in scraped_urls

\* a later page repeated only rows of earlier pages, and returned nothing
C1_Witness ==
    /\ calls >= 2
    /\ lastSkips.dups # {}
    /\ \A d \in lastSkips.dups : UniqueKey(d) \in lastSeen
    /\ lastEvents = <<>>
    /\ returned # <<>>

\* C3: every key carried by a row extracted without error is returned
\* exactly once in the run, and the event returned is the first such row.
C3_KeepsFirst ==
    \A f \in firstRow :
        /\ Cardinality({i \in 1..Len(returned) : UniqueKey(returned[i]) = f.key}) = 1
        /\ \E i \in 1..Len(returned) : returned[i] = f.data

\* C6: a row whose extraction raises is skipped and nothing else: the call
\* returns what it returns on the same page without the raising rows, and
\* leaves the same set of seen keys.
C6_RowErrorSkipsOnlyThatRow ==
    /\ lastEvents = lastClean.events
    /\ scraped_urls = lastClean.seen
    /\ lastRaised = lastClean.raised

\* a raising row stood between two rows that were both returned
C6_Witness ==
    /\ \E p \in lastSkips.errAt : 1 < p /\ p < lastSkips.n
    /\ Len(lastEvents) >= 2
    /\ ~lastRaised

\* C18: a call of the mixin's _parse_legistar_events returns only events of
\* rows of the calendar table and adds only keys of such rows to the set of
\* seen keys; on a page without a calendar table it returns nothing and
\* leaves the set as it was.
C18_OnlyCalendarTable ==
    impl = "mixin" =>
        /\ \A i \in 1..Len(lastEvents) :
              \E t \in 1..Len(lastPage) :
                  /\ IsCalendar(lastPage[t])
                  /\ ~Headers[lastPage[t].ths].err
                  /\ \E r \in 1..Len(lastPage[t].rows) :
                        /\ GoodRow(<<lastPage[t].ths, lastPage[t].rows[r]>>)
                        /\ DataOf(<<lastPage[t].ths, lastPage[t].rows[r]>>).data
                              = lastEvents[i]
        /\ \A k \in scraped_urls \ lastSeen :
              \E t \in 1..Len(lastPage) :
                  /\ IsCalendar(lastPage[t])
                  /\ ~Headers[lastPage[t].ths].err
                  /\ \E r \in 1..Len(lastPage[t].rows) :
                        /\ GoodRow(<<lastPage[t].ths, lastPage[t].rows[r]>>)
                        /\ UniqueKey(DataOf(<<lastPage[t].ths,
                                               lastPage[t].rows[r]>>).data) = k
        /\ (\A t \in 1..Len(lastPage) : ~IsCalendar(lastPage[t]))
              => lastEvents = <<>> /\ scraped_urls = lastSeen

\* a page with an upcoming table and a calendar table of other meetings:
\* the calendar rows were returned, the key of the upcoming row was not added
C18_Witness ==
    /\ impl = "mixin"
    /\ Len(lastPage) = 2
    /\ ~IsCalendar(lastPage[1])
    /\ IsCalendar(lastPage[2])
    /\ lastEvents # <<>>
    /\ \A r \in 1..Len(lastPage[1].rows) :
          /\ GoodRow(<<lastPage[1].ths, lastPage[1].rows[r]>>)
          /\ UniqueKey(DataOf(<<lastPage[1].ths, lastPage[1].rows[r]>>).data)
                \notin scraped_urls

-----------------------------------------------------------------------------
\* C28: rows are treated as duplicates only when their (detail-link URL,
\* date text, time text) triples are equal: a row discarded for its key has
\* the triple of the first row that carried the key.
C28_KeyInjectiveOnTriples ==
    \A d \in lastSkips.dups :
        \A f \in firstRow :
            f.key = UniqueKey(d) => Triple(f.data) = Triple(d)

\* C30: the rows a call skips leave no trace.  The keys added by the call
\* are the keys of the rows it went through whose extraction did not raise,
\* and a call that returns returns one event for every row that neither
\* raised nor repeated a key, each with its key added: a raising row adds
\* no key and no event, so a later row with its URL, date and time is
\* returned; a row discarded as a duplicate adds nothing either.
C30_SkippedRowsLeaveNoTrace ==
    /\ scraped_urls = lastSeen \cup lastSkips.keys
    /\ ~lastRaised =>
          /\ scraped_urls =
                lastSeen \cup {UniqueKey(lastEvents[i]) : i \in 1..Len(lastEvents)}
          /\ Len(lastEvents) = lastSkips.n - Cardinality(lastSkips.errAt)
                                           - Cardinality(lastSkips.dupAt)
    /\ lastSkips.n = Cardinality(lastSkips.errAt) + Cardinality(lastSkips.dupAt)
          => lastEvents = <<>> /\ scraped_urls = lastSeen

\* the calendar table held a raising row and after it a well-formed row
\* of the same URL, date and time, which was returned and whose key was
\* added by the call
C30_Witness ==
    /\ \E k \in 1..Len(lastPage) :
          /\ IsCalendar(lastPage[k])
          /\ lastPage[k].ths = "std"
          /\ lastPage[k].rows = <<"bad", "m1">>
    /\ lastSkips.errAt # {}
    /\ ~lastRaised
    /\ \E i \in 1..Len(lastEvents) : lastEvents[i] = Extracted["std"]["m1"].data
    /\ UniqueKey(Extracted["std"]["m1"].data) \in scraped_urls \ lastSeen

-----
(* Claims on the title classifier.                                         *)

\* C8: the classification is the first match, in the order council,
\* committee, commission, board, on the lowercased title, NOT_CLASSIFIED
\* without a match, and it is the same for a text Name and a link Name.
C8_OrderedFirstMatch ==
    clsOut.done =>
        LET t == Lower(clsTitle)
            council == Contains(t, K_council)
            committee == Contains(t, K_committee)
            commission == Contains(t, K_commission)
            board == Contains(t, K_board)
        IN  /\ council => clsOut.str = CITY_COUNCIL
            /\ ~council /\ committee => clsOut.str = COMMITTEE
            /\ ~council /\ ~committee /\ commission => clsOut.str = COMMISSION
            /\ ~council /\ ~committee /\ ~commission /\ board => clsOut.str = BOARD
            /\ ~council /\ ~committee /\ ~commission /\ ~board
                  => clsOut.str = NOT_CLASSIFIED
            /\ clsOut.dict = clsOut.str

\* a title with both "council" and "committee" was classified CITY_COUNCIL
C8_Witness ==
    /\ clsOut.done
    /\ Contains(Lower(clsTitle), K_council)
    /\ Contains(Lower(clsTitle), K_committee)
    /\ clsOut.str = CITY_COUNCIL
    /\ clsOut.dict = CITY_COUNCIL

\* C21: the CivicClerk mixin classifies a title by the first match, in the
\* order committee, commission, board, on the lowercased title, and
\* NOT_CLASSIFIED without a match; so a title with "commission" and without
\* "committee" is COMMISSION, with "board" in it or not.
C21_CivicOrderedFirstMatch ==
    clsOut.done =>
        LET t == Lower(clsTitle)
            committee == Contains(t, K_committee)
            commission == Contains(t, K_commission)
            board == Contains(t, K_board)
        IN  /\ committee => clsOut.civic = COMMITTEE
            /\ ~committee /\ commission => clsOut.civic = COMMISSION
            /\ ~committee /\ ~commission /\ board => clsOut.civic = BOARD
            /\ ~committee /\ ~commission /\ ~board
                  => clsOut.civic = NOT_CLASSIFIED

\* a title with "board" and "commission" and without "committee" was
\* classified COMMISSION
C21_Witness ==
    /\ clsOut.done
    /\ Contains(Lower(clsTitle), K_board)
    /\ Contains(Lower(clsTitle), K_commission)
    /\ ~Contains(Lower(clsTitle), K_committee)
    /\ clsOut.civic = COMMISSION

-----------------------------------------------------------------------------
(* Claims on the location normalizers.                                     *)

\* the location text of the event given: the text, or the label of a link
LocGiven == IF locRaw.kind = "absent" THEN <<>> ELSE locRaw.text

\* C10: in the mixin, a non-empty location text that contains a virtual
\* indicator in any letter case, or starts with the phone pattern, gives
\* exactly {"Virtual Meeting", ""}, whatever ZIP it holds and whatever
\* fallback is configured.
C10_VirtualFirst ==
    (/\ locOut.done
     /\ LocGiven # <<>>
     /\ \/ \E ind \in VirtualIndicators : Contains(Lower(LocGiven), ind)
        \/ PhoneMatch(LocGiven))
    => locOut.mixin = [name |-> VirtualMeeting, address |-> <<>>]

\* a text with an indicator and a ZIP, with a fallback configured
C10_Witness ==
    /\ locOut.done
    /\ \E ind \in VirtualIndicators : Contains(Lower(LocGiven), ind)
    /\ ~\E ind \in VirtualIndicators : Contains(LocGiven, ind)
    /\ ZipSearch(LocGiven)
    /\ locFallback # NoLocation
    /\ locOut.mixin = [name |-> VirtualMeeting, address |-> <<>>]

\* the location text is virtual for the mixin: it holds an indicator or
\* starts with the phone pattern
LocVirtual ==
    /\ LocGiven # <<>>
    /\ \/ \E ind \in VirtualIndicators : Contains(Lower(Strip(LocGiven)), ind)
       \/ PhoneMatch(Strip(LocGiven))

\* the location text after _clean_location_string
LocCleaned == CleanLocationString(Strip(LocGiven))

\* C11: in the mixin, for a location text that is not virtual: a cleaned
\* text with a ZIP gives {"", cleaned text} also when a fallback is
\* configured; without a ZIP (or without any text) the fallback is returned
\* when one is configured, else {cleaned text, ""}, which is {"", ""} for
\* an empty text.
C11_ZipThenFallbackThenName ==
    (locOut.done /\ ~LocVirtual) =>
        /\ ZipSearch(LocCleaned)
              => locOut.mixin = [name |-> <<>>, address |-> LocCleaned]
        /\ ~ZipSearch(LocCleaned) /\ locFallback # NoLocation
              => locOut.mixin = locFallback
        /\ ~ZipSearch(LocCleaned) /\ locFallback = NoLocation
              => locOut.mixin = [name |-> LocCleaned, address |-> <<>>]
        /\ LocGiven = <<>> /\ locFallback = NoLocation
              => locOut.mixin = [name |-> <<>>, address |-> <<>>]

\* an address with a ZIP followed by noise that the cleaning removed, with
\* a fallback configured: the cleaned address was returned
C11_Witness ==
    /\ locOut.done
    /\ ~LocVirtual
    /\ ZipSearch(LocCleaned)
    /\ LocCleaned # Strip(LocGiven)
    /\ locFallback # NoLocation
    /\ locOut.mixin = [name |-> <<>>, address |-> LocCleaned]

\* C12: a location text that is not empty (a cell text, which comes
\* stripped, so not blank either) never gives a location with both name and
\* address empty when no fallback is configured, in the mixin and in the
\* spider.
C12_BothEmptyOnlyWithoutText ==
    (locOut.done /\ Strip(LocGiven) # <<>> /\ locFallback = NoLocation) =>
        /\ locOut.mixin.name # <<>> \/ locOut.mixin.address # <<>>
        /\ locOut.spider.name # <<>> \/ locOut.spider.address # <<>>

-----------------------------------------------------------------------------
(* Claims on the locations of the CivicClerk sources and the KCKPS spider. *)

\* the five address fields of the event given, "" for one that is null or
\* left out, and for all of them when eventLocation is null or missing
AddressField(f) ==
    IF placeIn.event.given # "dict" \/ placeIn.event[f] = None THEN <<>>
    ELSE placeIn.event[f]

AllAddressFieldsEmpty ==
    \A f \in {"address1", "address2", "city", "state", "zipCode"} :
        AddressField(f) = <<>>

\* the non-empty parts among address1, address2 and the ", "-joined
\* city/state/zip, joined by single spaces
JoinedAddress ==
    LET NonEmpty(parts) == SelectSeq(parts, LAMBDA p : p # <<>>)
        csz == Join(<<",", " ">>,
                    NonEmpty(<<AddressField("city"), AddressField("state"),
                               AddressField("zipCode")>>))
    IN  Join(<<" ">>,
             NonEmpty(<<AddressField("address1"), AddressField("address2"),
                        csz>>))

\* C22 as stated: the name is the fixed government name; the address is the
\* default address exactly when the five address fields are all empty or
\* absent, and otherwise the joined parts, never empty.
C22_DefaultExactlyWhenAllEmpty ==
    placeIn.src = "civic" /\ placeOut # <<>> =>
        /\ placeOut[1].name = location_name
        /\ placeOut[1].address # <<>>
        /\ (placeOut[1].address = default_address) <=> AllAddressFieldsEmpty
        /\ ~AllAddressFieldsEmpty => placeOut[1].address = JoinedAddress

\* C22, amended: the name is the fixed government name; the address is the
\* joined parts less their leading and trailing whitespace, and the default
\* address when nothing is left of them; it is never empty.
C22_DefaultWhenNothingLeft ==
    placeIn.src = "civic" /\ placeOut # <<>> =>
        /\ placeOut[1].name = location_name
        /\ placeOut[1].address # <<>>
        /\ placeOut[1].address =
              IF Strip(JoinedAddress) = <<>> THEN default_address
              ELSE Strip(JoinedAddress)
        /\ AllAddressFieldsEmpty => placeOut[1].address = default_address

\* an event whose address1 is a blank and whose other fields are empty was
\* given the default address
C22_Witness ==
    /\ placeIn.src = "civic"
    /\ placeOut # <<>>
    /\ placeIn.event.given = "dict"
    /\ placeIn.event.address1 = <<" ">>
    /\ ~AllAddressFieldsEmpty
    /\ Strip(JoinedAddress) = <<>>
    /\ placeOut[1].address = default_address

\* a text of the item is blank: left out, null, or nothing once stripped
Blank(v) == v \in {NoKey, None} \/ Strip(v) = <<>>

\* the raw meeting title of the item given: Name, or MeetingTypeName when
\* Name is blank
RawTitleGiven ==
    IF ~Blank(placeIn.item.Name) THEN Strip(placeIn.item.Name)
    ELSE IF ~Blank(placeIn.item.MeetingTypeName)
    THEN Strip(placeIn.item.MeetingTypeName)
    ELSE <<>>

\* the entries of the location table whose keyword, and whose extra keyword
\* when they have one, occur in the raw title
MatchingEntries ==
    {i \in 1..Len(LOCATION_MAP) :
        /\ Contains(RawTitleGiven, LOCATION_MAP[i].keyword)
        /\ LOCATION_MAP[i].extra # None
              => Contains(RawTitleGiven, LOCATION_MAP[i].extra)}

\* C25: the KCKPS location is the (address, name) of the first matching
\* entry of the location table, entries whose extra keyword is missing from
\* the title being passed over; without a matching entry it is the empty
\* address and the item's MeetingLocation, "" when the item has none.  The
\* title is Name, or MeetingTypeName when Name is blank, and a location is
\* returned for every item.
C25_FirstMatchingEntry ==
    placeIn.src = "kckps" /\ placeOut # <<>> =>
        /\ ~placeOut[1].err
        /\ IF MatchingEntries = {}
           THEN /\ placeOut[1].location.address = <<>>
                /\ placeOut[1].location.name
                      \in {Get(placeIn.item.MeetingLocation, <<>>),
                           Or(Get(placeIn.item.MeetingLocation, <<>>), <<>>)}
           ELSE LET first == CHOOSE i \in MatchingEntries :
                                \A j \in MatchingEntries : i <= j
                IN  /\ placeOut[1].location.address = LOCATION_MAP[first].address
                    /\ placeOut[1].location.name = LOCATION_MAP[first].name

-----------------------------------------------------------------------------
(* Claims on the link builders.                                            *)

\* the cell of role i is a link descriptor with a non-empty url
Descriptor(i) ==
    /\ linkIn.cells[i].kind \in {"link", "urlonly"}
    /\ linkIn.cells[i].url \notin {None, <<>>}

\* the cell of role i, video or audio, carries a label that is empty or
\* holds "not" or "available" in any letter case
Placeholder(i) ==
    /\ LinkRoles[i] \in {H_Video, H_Audio}
    /\ linkIn.cells[i].kind = "link"
    /\ \/ linkIn.cells[i].text = <<>>
       \/ Contains(Lower(linkIn.cells[i].text), K_not)
       \/ Contains(Lower(linkIn.cells[i].text), K_available)

\* the roles that give a link, in the fixed order
LinkedRoles ==
    SelectSeq(<<1, 2, 3, 4, 5>>, LAMBDA i : Descriptor(i) /\ ~Placeholder(i))

\* C13: the Legistar link filter returns one link for each role whose cell
\* is a link descriptor with a non-empty url, less the video and audio
\* links with a placeholder label, in the order agenda, minutes, iCalendar,
\* video, audio; a cell that is absent or plain text gives no link.
C13_LinksFilteredInOrder ==
    linkOut.done =>
        /\ Len(linkOut.legistar) = Len(LinkedRoles)
        /\ \A k \in 1..Len(LinkedRoles) :
              linkOut.legistar[k].href = linkIn.cells[LinkedRoles[k]].url

\* an event with an agenda link, minutes as plain text, a video link
\* labelled "Not Available" and an audio link: agenda and audio were returned
C13_Witness ==
    /\ linkOut.done
    /\ Descriptor(1)
    /\ linkIn.cells[2].kind = "str"
    /\ Descriptor(4) /\ Placeholder(4)
    /\ ~Contains(linkIn.cells[4].text, K_not)
    /\ Descriptor(5) /\ ~Placeholder(5)
    /\ linkIn.cells[1].url # linkIn.cells[5].url
    /\ Len(linkOut.legistar) >= 2
    /\ linkOut.legistar[1].href = linkIn.cells[1].url
    /\ linkOut.legistar[Len(linkOut.legistar)].href = linkIn.cells[5].url

\* C14: the links of a record hold no two entries with the same href, from
\* the Legistar link filter and from the CivicClerk link builder.
C14_NoDuplicateHref ==
    linkOut.done =>
        /\ \A i, j \in 1..Len(linkOut.legistar) :
              i # j => linkOut.legistar[i].href # linkOut.legistar[j].href
        /\ \A i, j \in 1..Len(linkOut.civic) :
              i # j => linkOut.civic[i].href # linkOut.civic[j].href

-----------------------------------------------------------------------------
(* Claims on the records the sources emit.                                 *)

\* the kind of the source that crawls
Kind == Spiders[spider].kind

\* the text a raw event of the source gives for its start: the date and
\* the time of a calendar row, startDateTime, MeetingDateTime; <<>> for a
\* text that is missing, null or empty
StartTexts(raw) ==
    LET cell(h) == IF Has(raw, h) /\ raw[h].kind = "str" THEN Strip(raw[h].text)
                   ELSE <<>>
    IN  IF Kind \in {"mixin", "spider"}
        THEN <<cell(H_MeetingDate), cell(H_MeetingTime)>>
        ELSE IF Kind \in {"civic", "colgo"} THEN <<Or(raw.startDateTime, <<>>)>>
        ELSE <<Or(Get(raw.MeetingDateTime, <<>>), <<>>)>>

\* the start texts of the raw events the sources are run on that are a date
\* and a time, each with the date and time it says
StartsSaid ==
    { << <<T_date, T_time>>, <<2021, 1, 2, 9, 0, 0, 0>> >>,
      << <<<<"2","0","2","1","-","0","1","-","0","2","T","0","9",":","0","0",":","0","0","Z">>>>, <<2021, 1, 2, 9, 0, 0, 0>> >>,
      << <<<<"2","0","2","1","-","0","7","-","0","1","T","1","8",":","3","0",":","0","0">>>>, <<2021, 7, 1, 18, 30, 0, 0>> >>,
      << <<<<"2","0","2","1","-","0","1","-","0","5"," ","1","7",":","0","0">>>>, <<2021, 1, 5, 17, 0, 0, 0>> >>,
      << <<<<"2","0","2","1","-","0","7","-","0","1"," ","1","6",":","0","0">>>>, <<2021, 7, 1, 16, 0, 0, 0>> >> }

\* the raw event gives no start: a text is missing, or is no date and time
NoStart(raw) == \A s \in StartsSaid : s[1] # StartTexts(raw)

\* the raw event gives a text for its start date and time that is no date
\* and time
Malformed(raw) ==
    /\ NoStart(raw)
    /\ \A i \in 1..Len(StartTexts(raw)) : StartTexts(raw)[i] # <<>>

\* C2: in every source an emitted record has a start, the date and time
\* that the start text of its raw event says; a raw event whose start text
\* is missing or is no date and time is behind no emitted record.
C2_StartNeverAbsent ==
    \A i \in 1..Len(emitted) :
        /\ emitted[i].start # None
        /\ ~NoStart(origin[i])
        /\ <<StartTexts(origin[i]), emitted[i].start>> \in StartsSaid

\* a page of the Legistar spider with a row without a time, a row whose
\* time is no time and a good row: the first two were passed over, the
\* third is emitted
C2_Witness ==
    /\ spider = "city"
    /\ lastRun.yielded > 0
    /\ \E i \in 1..Len(lastRun.skipped) :
          NoStart(lastRun.skipped[i]) /\ ~Malformed(lastRun.skipped[i])
    /\ \E i \in 1..Len(lastRun.skipped) : Malformed(lastRun.skipped[i])
    /\ emitted # <<>>

\* C4: in a crawl run of a CivicClerk source no two emitted records come
\* from the same event id.
C4_OneRecordPerEventId ==
    Kind \in {"civic", "colgo"} =>
        \A i, j \in 1..Len(emitted) : i # j => origin[i].id # origin[j].id

\* C5: no callback raises on an event whose date and time text is malformed:
\* the event is dropped and the rest of the page is processed.
C5_MalformedDateDropsRecord ==
    lastRun.raised => \A raw \in lastRun.cause : ~Malformed(raw)

\* the closed set of classifications
Classifications == {CITY_COUNCIL, COMMITTEE, COMMISSION, BOARD, NOT_CLASSIFIED}

\* C9: every record emitted by a source built on the Legistar mixin has a
\* classification of the closed set: the one configured, or without one the
\* one detected from the title.
C9_ClassificationInClosedSet ==
    Kind = "mixin" =>
        \A i \in 1..Len(emitted) :
            /\ emitted[i].classification \in Classifications
            /\ emitted[i].classification =
                   IF Spiders[spider].classification # None
                   THEN Spiders[spider].classification
                   ELSE SpiderParseClassification(origin[i])

\* C15: the status of every emitted record is PASSED when its start is at
\* or before now, TENTATIVE otherwise, and nothing else, whatever its
\* title, description and location say.
C15_StatusFromStartAndNowOnly ==
    \A i \in 1..Len(emitted) :
        emitted[i].status =
            IF DtLess(emitted[i].start, clock) \/ emitted[i].start = clock
            THEN PASSED ELSE TENTATIVE

\* a record that starts now and whose description tells of a cancellation
\* is PASSED, and a record that starts later is TENTATIVE
C15_Witness ==
    /\ \E i \in 1..Len(emitted) :
          /\ emitted[i].start = clock
          /\ Contains(Lower(emitted[i].description), <<"c","a","n","c","e","l">>)
          /\ emitted[i].status = PASSED
    /\ \E i \in 1..Len(emitted) :
          /\ DtLess(clock, emitted[i].start)
          /\ emitted[i].status = TENTATIVE

\* the option texts of the year selector of the page given to parse: those
\* of the selector found first
YearOptions ==
    LET o == dropdown[1]
        t == IF o.rcb # <<>> THEN o.rcb ELSE o.select
    IN  {Strip(t[i]) : i \in 1..Len(t)}

\* the years offered: the option texts that are all digits
YearsOffered ==
    {Num(t) : t \in {u \in YearOptions :
                        u # <<>> /\ \A k \in 1..Len(u) : u[k] \in Digits}}

\* the maximum year to request: the largest year offered, the year after
\* the current one when none is offered
MaxYearOffered ==
    IF YearsOffered = {} THEN clock[1] + 1
    ELSE CHOOSE y \in YearsOffered : \A z \in YearsOffered : z <= y

\* C17: once parse of the mixin is through with the first page, the years
\* requested are START_YEAR up to the largest all-digit option of the year
\* selector; up to the year after the current one exactly when the selector
\* is absent or offers no such option; other options do not count.
C17_MaxYearFromDropdown ==
    (Kind = "mixin" /\ lastRun.cb = "parse" /\ (lastRun.done \/ lastRun.raised))
        => requested = Range(START_YEAR, MaxYearOffered)

\* C26: in a crawl of a source built on the Legistar mixin the callback of
\* the first page emits no record and requests each year from START_YEAR to
\* the maximum year it found once, in ascending order, one more pending
\* request with each, and none when that year is before START_YEAR; nothing
\* else requests a year or the first page again, so the fan-out happens
\* once in the crawl.
C26_FanOutOncePerCrawl ==
    [][Kind = "mixin" =>
          /\ lastRun'.cb = "parse" => emitted' = emitted
          /\ requested' # requested =>
                /\ lastRun'.cb = "parse"
                /\ requested' = Append(requested, START_YEAR + Len(requested))
                /\ pending'.page = pending.page + 1
          /\ pending'.parse <= pending.parse
          /\ (lastRun'.cb = "parse" /\ lastRun'.done) =>
                /\ requested' = Range(START_YEAR, MaxYearOffered')
                /\ MaxYearOffered' < START_YEAR => requested' = <<>>]_vars

\* the fan-out over several years is over, a year page was answered before
\* parse had requested the last year and gave a record, and the other year
\* requests are the only ones pending
C26_Witness ==
    /\ Kind = "mixin"
    /\ handled = 2
    /\ Len(requested) >= 2
    /\ requested = Range(START_YEAR, MaxYearOffered)
    /\ emitted # <<>>
    /\ lastRun.cb = "parse"
    /\ lastRun.done
    /\ pending.parse = 0
    /\ pending.page = Len(requested) - 1

\* C27: the generator of parse of a CivicClerk source yields at most one
\* request for a next page, none without @odata.nextLink on its page, and
\* when it is over it has yielded that request exactly when the page
\* carried @odata.nextLink, so every page of a chain is requested once and
\* the crawl ends at the page without nextLink.
C27_FollowUpExactlyOnNextLink ==
    ((Kind = "civic" \/ Kind = "colgo") /\ lastRun.cb = "parse") =>
        /\ lastRun.sent <= 1
        /\ lastRun.sent = 1 => lastRun.next_link
        /\ (lastRun.done \/ lastRun.raised) =>
              (lastRun.next_link => lastRun.sent = 1)

\* C19: a source built on the Legistar mixin emits a record only for an
\* event whose title, the label of Name or its text, equals agency_filter,
\* and the record carries that title.
C19_OnlyAgencyFilterTitle ==
    Kind = "mixin" =>
        \A i \in 1..Len(emitted) :
            /\ GetEventTitle(origin[i]) = Spiders[spider].agency_filter
            /\ emitted[i].title = Spiders[spider].agency_filter

\* a page of a mixin source with an event of another agency and an event of
\* its own: the first was passed over, the second emitted
C19_Witness ==
    /\ Kind = "mixin"
    /\ lastRun.yielded > 0
    /\ \E i \in 1..Len(lastRun.skipped) :
          /\ GetEventTitle(lastRun.skipped[i]) # Spiders[spider].agency_filter
          /\ ~NoStart(lastRun.skipped[i])

\* C20: the title of every emitted record is not empty once trimmed.
C20_TitleNeverEmpty ==
    \A i \in 1..Len(emitted) : Strip(emitted[i].title) # <<>>

-----------------------------------------------------------------------------
(* Claims on class creation.                                               *)

\* the required settings of a class
Required(cls) == IF cls.family = "civic" THEN CivicRequired ELSE LegistarRequired

\* C7: a class made from a mixin exists only if every required setting has
\* a value, the error names exactly the settings without one, and a class
\* whose body gives a value to every required setting exists.
C7_RequiredSettingsEnforced ==
    \A c \in DOMAIN classes \ DOMAIN Mixins :
        /\ classes[c].missing =
               SelectSeq(Required(classes[c]),
                         LAMBDA var : GetAttr(classes[c], var) = None)
        /\ (\A i \in 1..3 :
               classes[c].dct[Required(classes[c])[i]] \notin {NoAttr, None})
           => Created(c)

-----------------------------------------------------------------------------
(* Claims on run_all_spiders.                                              *)

\* C23: once run_spider has returned for a spider, a spider reported with
\* item count 0 (no meetings) or -1 (failed) has no output file.
C23_NoFileUnlessItems ==
    \A s \in 1..nspiders :
        futures[s] # <<>> /\ ~futures[s][1].raised /\ futures[s][1].items <= 0
        => outputs[s].kind = "absent"

\* the spiders for which run_spider returned a positive item count
Successful ==
    {s \in 1..nspiders :
        futures[s] # <<>> /\ ~futures[s][1].raised /\ futures[s][1].items > 0}

\* the sum of the item counts returned for the spiders of S
RECURSIVE ItemSum(_)
ItemSum(S) ==
    IF S = {} THEN 0
    ELSE LET s == CHOOSE x \in S : TRUE
         IN  futures[s][1].items + ItemSum(S \ {s})

\* the pool is finished: no call waits or runs and the main thread has left
\* the with statement
PoolFinished == waiting = <<>> /\ running = {} /\ main # "loop"

\* C29: for every number of workers and every order of completion no spider
\* is run twice, every result collected is counted once, and when the pool
\* is finished every spider has run once, success + empty + failed is the
\* number of spiders and total_items is the sum of the item counts of the
\* successful spiders.
C29_CountersAddUp ==
    /\ \A s \in 1..nspiders : runs[s] <= 1
    /\ results.success + results.empty + results.failed = Cardinality(collected)
    /\ results.success = Cardinality(Successful \cap collected)
    /\ results.total_items = ItemSum(Successful \cap collected)
    /\ PoolFinished =>
          /\ \A s \in 1..nspiders : runs[s] = 1
          /\ results.success + results.empty + results.failed = nspiders
          /\ results.total_items = ItemSum(Successful)

====
